---- MODULE Spec2Model ----
(***************************************************************************)
(* A model of the voice runtime and the conversation service of the        *)
(* Blitsum sales-executive SDK.                                            *)
(*                                                                         *)
(*   murf   MurfFalconClient (sdk/src/utils/murf.js): the TTS WebSocket    *)
(*          client, its completion tracking and its reconnect logic,       *)
(*          together with the JavaScript run-time objects its methods act  *)
(*          on (the speak promises, the messages sent on the socket, the   *)
(*          timers it arms, the audio sources it stopped).                 *)
(*   vh     VoiceHandler (sdk/src/agent.js): recognition, turn-taking,     *)
(*          barge-in.                                                      *)
(*   api    sendMessage (sdk/src/api.js): the conversation history.        *)
(*                                                                         *)
(* Methods are operators from a state record to a state record, composed   *)
(* in the order of the statements of the source; an action is one run of   *)
(* one event handler or one call of a public method.                       *)
(***************************************************************************)
EXTENDS Integers, Sequences, FiniteSets, TLC

\* ---------------------------------------------------------------- bounds
\* Playback runs (Spec): calls of MurfFalconClient.speak, audio frames the
\* server sends, WebSocket close events (failed connections included).
MaxSpeaks == 2
MaxChunks == 1
MaxCloses == 1
\* Reconnect runs (SpecReconnect): the same three.
MaxSpeaksR == 1
MaxChunksR == 1
MaxClosesR == 5
\* Voice runs (SpecVoice): final segments the recognizer delivers (each can
\* start one turn, so one speak call), audio frames the server sends, restart
\* timers of handleError pending at once.  In these runs the TTS connection
\* does not fail or drop on its own: the socket is closed by stop() only.
MaxFinals == 1
\* Overlap runs (SpecOverlap): final results of a voice run.
MaxFinalsO == 2
MaxChunksV == 1
MaxErrors == 1
\* Conversation runs (SpecApi): calls of sendMessage, and calls in flight at
\* once; enough calls for the history to reach its cap.
MaxCalls == 11
MaxInFlight == 1
\* Overlapping conversation runs (SpecApiTurns): the same two.
MaxCallsT == 3
MaxInFlightT == 2
\* Cache runs (SpecCache): the clock's ticks, calls of get.
MaxTime == 3
MaxGets == 2
\* Observer runs (SpecDom): mutation records of one batch, batches delivered.
MaxBatchLen == 2
MaxBatches == 2
\* Effect runs (SpecFx): calls of highlightElement, compareElements and
\* focusElement on the element.
MaxEffects == 3
\* Navigation runs (SpecNav): calls of executeActionPlan, actions of a plan.
MaxPlans == 1
MaxPlanLen == 3
\* Trigger runs (SpecTrig): the clock's ticks, cycles of checkTriggers.
MaxClock == 3
MaxCycles == 2
\* Stage runs (SpecFlow): user utterances processed.
MaxUtterances == 3
\* Stage runs with resets (SpecStages): calls of reset.
MaxResets == 1
\* Parser runs (SpecParse): lines of an assistant output.
MaxLines == 3
\* Shell runs (SpecUi): close timers pending at one time.
MaxCloseTimers == 2
\* Page runs (SpecPage): calls of Blitsum.init, seconds on the clock.
MaxInits == 3
MaxSeconds == 3
\* Intent runs (SpecIntent): calls of navigate, and names of one kind that an
\* utterance mentions.
MaxNavigates == 2
MaxNames == 1
\* Routing runs (SpecRoute): messages the widget routes.
MaxRoutes == 1
\* Planning runs (SpecPlan): plan names that an utterance mentions.
MaxPlanNames == 2
\* Closing runs (SpecSales): plans of the pricing section.
MaxPricing == 3
\* Playback runs (SpecAudio): audio chunks of a run, bytes of a chunk, the
\* audio clock, and the latest end of scheduled audio, in sample times.
MaxAudioChunks == 2
MaxBytes == 48
MaxAudioTime == 2
MaxPlayTime == 28
\* Turns are numbered up to the largest number of final results of a run.
MaxTurns == IF MaxFinals > MaxFinalsO THEN MaxFinals ELSE MaxFinalsO
\* Promises are numbered up to the largest number of speak calls of a run.
MaxPromises ==
    LET a == IF MaxSpeaks > MaxSpeaksR THEN MaxSpeaks ELSE MaxSpeaksR
    IN  IF a > MaxTurns THEN a ELSE MaxTurns

\* ------------------------------------------------------ program constants
\* this.maxReconnectAttempts = 3
maxReconnectAttempts == 3
\* const MAX_HISTORY_LENGTH = 10
MAX_HISTORY_LENGTH == 10

VARIABLES
    murf,        \* the MurfFalconClient object and the run-time objects it acts on
    server,      \* the TTS server: the contexts it is streaming, the frames sent
    env,         \* counters of the environment: closes seen, automatic attempts
    vh,          \* the VoiceHandler object, its recognizer, timers and turns
    api,         \* api.js: conversationHistory and the sendMessage calls made
    cache,       \* cache.js: globalCache, the clock and the mutation observer
    fx,          \* the inline style of an element and the effects' timers
    nav,         \* NavigationAgent.executeActionPlan: the plan being executed
    trig,        \* EngagementTriggers: the rules, their delayed fires, the clock
    flow,        \* ConversationFlowManager: the stage and the utterances seen
    parsed,      \* parseAndExecute: the output parsed, directives and text
    ui,          \* the widget shell: isOpen, voice mode, hover, the close timer
    page,        \* the host page: readyState, what init installed, the tracker
    sales,       \* the sales layer: the user profile, the plans, what was recommended
    playback     \* the playback path of the client: the audio clock, nextPlayTime

murfVars == <<murf, server, env>>
sessionVars == <<murf, server, env, vh, api>>
\* The objects of the page, outside the voice and conversation session.
pageVars == <<cache, fx, nav, trig, flow, parsed, ui, page, sales, playback>>
vars == <<murf, server, env, vh, api, cache, fx, nav, trig, flow, parsed, ui, page, sales, playback>>
\* What the actions of one part leave alone.
notCache == <<sessionVars, fx, nav, trig, flow, parsed, ui, page, sales, playback>>
notFx == <<sessionVars, cache, nav, trig, flow, parsed, ui, page, sales, playback>>
notNav == <<sessionVars, cache, fx, trig, flow, parsed, ui, page, sales, playback>>
notTrig == <<sessionVars, cache, fx, nav, flow, parsed, ui, page, sales, playback>>
notFlow == <<sessionVars, cache, fx, nav, trig, parsed, ui, page, sales, playback>>
notParsed == <<sessionVars, cache, fx, nav, trig, flow, ui, page, sales, playback>>
notUi == <<sessionVars, cache, fx, nav, trig, flow, parsed, page, sales, playback>>
notPage == <<sessionVars, cache, fx, nav, trig, flow, parsed, ui, sales, playback>>
notSales == <<sessionVars, cache, fx, nav, trig, flow, parsed, ui, page, playback>>
notAudio == <<sessionVars, cache, fx, nav, trig, flow, parsed, ui, page, sales>>

Speaks == 1..MaxPromises

\* A context id is "v_" + Date.now(); context k is the one of the k-th speak call.
\* 0 stands for null.
NoContext == 0
NoSpeak == 0

\* Who awaits the promise connect() returned for the socket: nobody, the
\* speak call `id` of the client, VoiceHandler.start, or VoiceHandler.speak
\* of turn `id`.
NoWaiter == [kind |-> "none", id |-> 0]
SpeakWaiter(p) == [kind |-> "speak", id |-> p]
StartWaiter == [kind |-> "vhStart", id |-> 0]
TurnWaiter(t) == [kind |-> "vhSpeak", id |-> t]

\* The states of a speak promise.  "awaitConnect": speak is suspended at
\* `await this.connect()`; "pending": its resolve/reject are registered in
\* currentSpeakResolve/currentSpeakReject.
Unsettled == {"awaitConnect", "pending"}
PromiseStates == {"none", "awaitConnect", "pending", "resolved",
                  "rejInterrupted", "rejDisconnected", "rejError",
                  "rejConnect", "rejThrew"}

\* ------------------------------------------------------- MurfFalconClient

\* The constructor, murf.js 6-26, and the run-time objects, all empty.
MurfInit ==
    [ socket            |-> "null",      \* readyState of this.socket, or "null"
      reconnectAttempts |-> 0,
      activeSources     |-> {},
      currentContextId  |-> NoContext,
      currentSpeak      |-> NoSpeak,     \* currentSpeakResolve / currentSpeakReject
      hasReceivedFinal  |-> FALSE,
      audioContext      |-> "null",      \* state of this.audioContext, or "null"
      \* run-time objects
      speaks            |-> 0,           \* calls of speak made so far
      promise           |-> [p \in Speaks |-> "none"],
      settleCalls       |-> [p \in Speaks |-> 0],   \* calls of p's resolve or reject
      wire              |-> <<>>,        \* messages accepted by socket.send, in order
      stoppedSources    |-> {},          \* stopped sources whose ended event is due
      reconnectTimers   |-> 0,           \* pending setTimeout(() => this.connect())
      orphans           |-> <<>>,        \* dropped sockets whose close event is due:
                                         \* for each, who awaits its connect promise
      connWaiter        |-> NoWaiter ]   \* who awaits the connect promise of this.socket

\* A call of the resolve or the reject function of promise p: the first call
\* settles the promise, a later one changes nothing (JavaScript promises).
settle(s, p, outcome) ==
    [s EXCEPT !.promise[p] = IF @ = "pending" THEN outcome ELSE @,
              !.settleCalls[p] = @ + 1]

\* A clearPendingPromise that leaves the functions registered.
clearPendingPromise_kept(s) ==
    s

clearPendingPromise(s) ==
    [s EXCEPT !.currentSpeak = NoSpeak]

checkPlaybackCompletion(s) ==
    IF s.hasReceivedFinal /\ s.activeSources = {}
    THEN IF s.currentSpeak # NoSpeak
         THEN clearPendingPromise(settle(s, s.currentSpeak, "resolved"))
         ELSE s
    ELSE s

\* source.stop() on every active source (its ended event fires later), then
\* activeSources.clear().
flushBuffer(s) ==
    [s EXCEPT !.stoppedSources = @ \cup s.activeSources,
              !.activeSources = {}]

handleReconnect(s) ==
    IF s.reconnectAttempts < maxReconnectAttempts
    THEN [s EXCEPT !.reconnectAttempts = @ + 1,
                   !.reconnectTimers = @ + 1]
    ELSE s

\* connect(), murf.js 31-59: nothing when the socket is OPEN or CONNECTING,
\* else the AudioContext if there is none yet and a new WebSocket, CONNECTING,
\* whose promise `waiter` awaits.
connect(s, waiter) ==
    IF s.socket \in {"open", "connecting"}
    THEN s
    ELSE [s EXCEPT !.audioContext = "running",
                   !.socket = "connecting",
                   !.connWaiter = waiter]

\* socket.send(msg): queued when OPEN, dropped when CLOSING or CLOSED.  (On a
\* CONNECTING socket send throws; speakBody handles that case.)
send(s, msg) ==
    IF s.socket = "open" THEN [s EXCEPT !.wire = Append(@, msg)] ELSE s

\* speak(text) from "Reset state for new utterance" on (murf.js 121-168), for
\* the call whose promise is p.  A send on a CONNECTING socket throws
\* InvalidStateError: before the executor the async function rejects, inside
\* the executor the new promise rejects with its functions left registered.
speakBody(s, p) ==
    LET s1 == [flushBuffer(s) EXCEPT !.hasReceivedFinal = FALSE]
        s2 == IF s1.currentSpeak # NoSpeak
              THEN clearPendingPromise(settle(s1, s1.currentSpeak, "rejInterrupted"))
              ELSE s1
    IN  IF s2.currentContextId # NoContext /\ s2.socket = "connecting"
        THEN [s2 EXCEPT !.promise[p] = "rejThrew"]
        ELSE LET s3 == IF s2.currentContextId # NoContext
                       THEN send(s2, <<"end", s2.currentContextId>>)
                       ELSE s2
                 s4 == [s3 EXCEPT !.promise[p] = "pending",
                                  !.currentSpeak = p,
                                  !.currentContextId = p]
             IN  IF s4.socket = "connecting"
                 THEN [s4 EXCEPT !.promise[p] = "rejThrew"]
                 ELSE send(send(s4, <<"voice_config", p>>), <<"text", p>>)

\* speak(text), murf.js 115-169: `await this.connect()` when the socket is not
\* OPEN.  connect() returns at once for a CONNECTING socket, and the body runs
\* in the same turn; for no socket or a closed one the call is suspended until
\* the new socket opens.
speak(s) ==
    LET p  == s.speaks + 1
        s1 == [s EXCEPT !.speaks = p]
    IN  IF s1.socket \in {"null", "closed"}
        THEN [connect(s1, SpeakWaiter(p)) EXCEPT !.promise[p] = "awaitConnect"]
        ELSE speakBody(s1, p)

\* scheduleAudioChunk(base64Chunk): a chunk that decodes to no samples is
\* dropped, any other becomes an active source.
scheduleAudioChunk(s, src, decodes) ==
    IF decodes THEN [s EXCEPT !.activeSources = @ \cup {src}] ELSE s

\* socket.onmessage, murf.js 62-91, for a frame with the given fields.
onmessage(s, src, audio, isFinalAudio, error) ==
    LET s1 == IF audio # "none" THEN scheduleAudioChunk(s, src, audio = "samples") ELSE s
        s2 == IF isFinalAudio
              THEN checkPlaybackCompletion([s1 EXCEPT !.hasReceivedFinal = TRUE])
              ELSE s1
    IN  IF error
        THEN IF s2.currentSpeak # NoSpeak
             THEN clearPendingPromise(settle(s2, s2.currentSpeak, "rejError"))
             ELSE s2
        ELSE s2

\* source.onended, murf.js 201-204.
onended(s, src) ==
    checkPlaybackCompletion([s EXCEPT !.activeSources = @ \ {src},
                                      !.stoppedSources = @ \ {src}])

\* socket.onopen, murf.js 55-60: resolve() resumes the speak call that awaits
\* the connect promise, before any other event is handled.
onopen(s) ==
    LET s1 == [s EXCEPT !.socket = "open", !.reconnectAttempts = 0,
                        !.connWaiter = NoWaiter]
    IN  IF s.connWaiter.kind = "speak"
        THEN speakBody(s1, s.connWaiter.id)
        ELSE s1

\* reject(err) of the connect promise, for the speak call that awaits it.
rejectWaiter(s, w) ==
    IF w.kind = "speak" THEN [s EXCEPT !.promise[w.id] = "rejConnect"] ELSE s

\* socket.onerror then socket.onclose of a connection that failed, murf.js
\* 93-102: reject(err) rejects the speak call that awaits the connect promise.
onerrorThenClose(s) ==
    handleReconnect(rejectWaiter([s EXCEPT !.socket = "closed", !.connWaiter = NoWaiter],
                                 s.connWaiter))

\* The events of a socket that disconnect() closed and dropped: onerror when
\* it was closed before it opened, then onclose.
orphanClose(s, i) ==
    LET w  == s.orphans[i]
        s1 == [s EXCEPT !.orphans = SubSeq(@, 1, i - 1) \o SubSeq(@, i + 1, Len(@))]
    IN  handleReconnect(rejectWaiter(s1, w))

\* socket.onclose of the open socket, murf.js 93-97.
onclose(s) ==
    handleReconnect([s EXCEPT !.socket = "closed"])

\* The callback of handleReconnect's timer, murf.js 291.
reconnectTimerFires(s) ==
    connect([s EXCEPT !.reconnectTimers = @ - 1], NoWaiter)

disconnect(s) ==
    LET s1 == flushBuffer(s)
        s2 == IF s1.socket # "null"
              THEN [s1 EXCEPT !.socket = "null",
                              !.connWaiter = NoWaiter,
                              !.orphans = IF s1.socket = "closed"
                                          THEN @
                                          ELSE Append(@, s1.connWaiter)]
              ELSE s1
    IN  IF s2.currentSpeak # NoSpeak
        THEN clearPendingPromise(settle(s2, s2.currentSpeak, "rejDisconnected"))
        ELSE s2

\* --------------------------------------------------------------- actions

ServerInit == [streaming |-> {}, chunks |-> 0]
EnvInit == [closes |-> 0, autoAttempts |-> 0]

\* The server streams a context once its text message was accepted.
Accepted(s, c) ==
    \E i \in 1..Len(s.wire) : s.wire[i] = <<"text", c>>

StreamingAfter(s) ==
    server.streaming \cup {c \in Speaks : Accepted(s, c) /\ ~Accepted(murf, c)}

\* A caller calls speak(text).
Speak(maxSpeaks) ==
    /\ murf.speaks < maxSpeaks
    /\ LET s == speak(murf)
       IN  /\ murf' = s
           /\ server' = [server EXCEPT !.streaming = StreamingAfter(s)]
    /\ UNCHANGED env
    /\ UNCHANGED <<vh, api, pageVars>>

\* A caller calls flushBuffer() (VoiceHandler.interrupt does).
FlushBuffer ==
    /\ murf' = flushBuffer(murf)
    /\ UNCHANGED <<server, env>>
    /\ UNCHANGED <<vh, api, pageVars>>

\* A caller calls disconnect() (VoiceHandler.stop does).
Disconnect(maxCloses) ==
    /\ murf.socket \in {"open", "connecting"} => env.closes < maxCloses
    /\ murf' = disconnect(murf)
    /\ server' = [server EXCEPT !.streaming = {}]
    /\ env' = [env EXCEPT !.closes = @ + (IF murf.socket \in {"open", "connecting"} THEN 1 ELSE 0)]
    /\ UNCHANGED <<vh, api, pageVars>>

\* A caller calls connect() (VoiceHandler.start and VoiceHandler.speak do).
Connect ==
    /\ murf.socket \in {"null", "closed"}
    /\ murf' = connect(murf, NoWaiter)
    /\ UNCHANGED <<server, env>>
    /\ UNCHANGED <<vh, api, pageVars>>

SocketOpen ==
    /\ murf.socket = "connecting"
    /\ LET s == onopen(murf)
       IN  /\ murf' = s
           /\ server' = [server EXCEPT !.streaming = StreamingAfter(s)]
    /\ env' = [env EXCEPT !.autoAttempts = 0]
    /\ UNCHANGED <<vh, api, pageVars>>

SocketFail(maxCloses) ==
    /\ murf.socket = "connecting"
    /\ env.closes < maxCloses
    /\ murf' = onerrorThenClose(murf)
    /\ env' = [env EXCEPT !.closes = @ + 1]
    /\ UNCHANGED server
    /\ UNCHANGED <<vh, api, pageVars>>

SocketClose(maxCloses) ==
    /\ murf.socket = "open"
    /\ env.closes < maxCloses
    /\ murf' = onclose(murf)
    /\ server' = [server EXCEPT !.streaming = {}]
    /\ env' = [env EXCEPT !.closes = @ + 1]
    /\ UNCHANGED <<vh, api, pageVars>>

\* The close event of a socket that disconnect() closed and dropped.
OrphanClose ==
    /\ \E i \in 1..Len(murf.orphans) : murf' = orphanClose(murf, i)
    /\ UNCHANGED <<server, env>>
    /\ UNCHANGED <<vh, api, pageVars>>

ReconnectTimer ==
    /\ murf.reconnectTimers > 0
    /\ murf' = reconnectTimerFires(murf)
    /\ env' = [env EXCEPT !.autoAttempts =
                   IF murf.socket \in {"null", "closed"} THEN @ + 1 ELSE @]
    /\ UNCHANGED server
    /\ UNCHANGED <<vh, api, pageVars>>

\* A frame of context c arrives on the open socket.
Frame(maxChunks) ==
    /\ murf.socket = "open"
    /\ \E c \in server.streaming, audio \in {"none", "samples", "empty"},
          isFinalAudio \in BOOLEAN, error \in BOOLEAN :
        /\ audio # "none" \/ isFinalAudio \/ error
        /\ audio # "none" => server.chunks < maxChunks
        /\ murf' = onmessage(murf, <<c, server.chunks + 1>>, audio, isFinalAudio, error)
        /\ server' = [streaming |-> IF isFinalAudio \/ error
                                    THEN server.streaming \ {c}
                                    ELSE server.streaming,
                      chunks |-> IF audio # "none"
                                 THEN server.chunks + 1
                                 ELSE server.chunks]
    /\ UNCHANGED env
    /\ UNCHANGED <<vh, api, pageVars>>

\* An active source finishes playing, or the ended event of a stopped one fires.
SourceEnded ==
    /\ \E src \in murf.activeSources \cup murf.stoppedSources :
        murf' = onended(murf, src)
    /\ UNCHANGED <<server, env>>
    /\ UNCHANGED <<vh, api, pageVars>>

\* ------------------------------------------------------------ VoiceHandler

Turns == 1..MaxTurns
NoTimer == 0

\* The constructor, agent.js 76-93, with the recognizer not yet created, no
\* timer armed and no turn begun.
VoiceInit ==
    [ recognition   |-> FALSE,       \* this.recognition is an object, not null
      isListening   |-> FALSE,
      isSpeaking    |-> FALSE,
      silenceTimer  |-> NoTimer,     \* the id setTimeout returned last
      transcript    |-> <<>>,        \* the final segments accumulated, in order
      \* run-time objects
      status        |-> "none",      \* the status last passed to onStatusChange
      recState      |-> "idle",      \* the recognizer: idle, starting, running, stopping
      timers        |-> {},          \* pending silence timers, by id
      resumeTimers  |-> 0,           \* pending 300 ms timers of handleSpeechEnd
      restartTimers |-> 0,           \* pending 1000 ms timers of handleError
      statusTimers  |-> 0,           \* pending 2000 ms timers of speak's catch
      turn          |-> [t \in Turns |-> "none"],   \* where processSpeech call t is
      turnPromise   |-> [t \in Turns |-> NoSpeak], \* the speak promise it awaits
      handed        |-> <<>>,        \* the messages handed to onResponseCallback
      heard         |-> <<>>,        \* every final segment delivered, in order
      lastResult    |-> "none",      \* the kind of the last result event
      startPc       |-> "new",       \* start(): new, awaitConnect, done
      stopped       |-> FALSE ]      \* stop() was called

\* updateStatus(status); onStatusChange is set from start() on.
updateStatus(st, status) ==
    [st EXCEPT !.v.status = status]

\* recognition.start(): throws InvalidStateError unless the recognizer is
\* idle; every caller below catches it.
recognitionStart(st) ==
    IF st.v.recState = "idle" THEN [st EXCEPT !.v.recState = "starting"] ELSE st

\* recognition.stop(): the end event follows.
recognitionStop(st) ==
    IF st.v.recState \in {"starting", "running"}
    THEN [st EXCEPT !.v.recState = "stopping"]
    ELSE st

\* transcript.trim(): the accumulated text without leading and trailing
\* white space; a segment of white space only contributes nothing but space.
RECURSIVE TrimLeft(_)
TrimLeft(segs) ==
    IF segs = <<>> \/ Head(segs).word THEN segs ELSE TrimLeft(Tail(segs))

RECURSIVE TrimRight(_)
TrimRight(segs) ==
    IF segs = <<>> \/ segs[Len(segs)].word
    THEN segs
    ELSE TrimRight(SubSeq(segs, 1, Len(segs) - 1))

Trim(segs) == TrimRight(TrimLeft(segs))

handleSpeechEnd(st) ==
    LET s1 == updateStatus([st EXCEPT !.v.isSpeaking = FALSE], "listening")
    IN  IF s1.v.isListening /\ s1.v.recognition
        THEN [s1 EXCEPT !.v.resumeTimers = @ + 1]
        ELSE s1

\* The callback of handleSpeechEnd's timer, agent.js 299-310.
resumeTimerFires(st) ==
    LET s1 == [st EXCEPT !.v.resumeTimers = @ - 1]
    IN  IF s1.v.isListening /\ ~s1.v.isSpeaking
        THEN recognitionStart(s1)
        ELSE s1

interrupt(st) ==
    IF st.v.isSpeaking THEN [st EXCEPT !.m = flushBuffer(st.m)] ELSE st

\* VoiceHandler.speak after `await this.murfClient.connect()`: the call of
\* murfClient.speak(text), whose promise turn t awaits.
speakCall(st, t) ==
    [st EXCEPT !.m = speak(st.m),
               !.v.turn[t] = "awaitSpeak",
               !.v.turnPromise[t] = st.m.speaks + 1]

\* VoiceHandler.speak(text), agent.js 246-271, for turn t, up to its first
\* suspension.  murfClient.isConnected is never defined, so connect() is
\* always called: it returns at once for an OPEN or CONNECTING socket.
voiceSpeak(st, t) ==
    LET s1 == IF st.v.recognition /\ st.v.isListening THEN recognitionStop(st) ELSE st
        s2 == updateStatus([s1 EXCEPT !.v.isSpeaking = TRUE], "ai-speaking")
    IN  IF s2.m.socket \in {"open", "connecting"}
        THEN speakCall(s2, t)
        ELSE [s2 EXCEPT !.m = connect(s2.m, TurnWaiter(t)),
                        !.v.turn[t] = "awaitConnect"]

\* VoiceHandler.speak resumed with the promise resolved, agent.js 273-274.
speakResolved(st, t) ==
    handleSpeechEnd([st EXCEPT !.v.turn[t] = "done"])

\* A catch that ends the speaking state and reports nothing.
speakRejected_silent(st, t) ==
    handleSpeechEnd([st EXCEPT !.v.turn[t] = "done"])

\* VoiceHandler.speak's catch, agent.js 275-286.
speakRejected(st, t) ==
    LET s1 == updateStatus(handleSpeechEnd([st EXCEPT !.v.turn[t] = "done"]), "error")
    IN  [s1 EXCEPT !.v.statusTimers = @ + 1]

\* The callback of the catch's timer, agent.js 283-285.
statusTimerFires(st) ==
    LET s1 == [st EXCEPT !.v.statusTimers = @ - 1]
    IN  IF s1.v.isListening THEN updateStatus(s1, "listening") ELSE s1

\* The continuations of the turns whose speak promise has been settled, run
\* in the order the promises were created, before any other event.
RECURSIVE resumeFrom(_, _)
resumeFrom(st, t) ==
    IF t > MaxTurns
    THEN st
    ELSE IF st.v.turn[t] = "awaitSpeak" /\ st.m.promise[st.v.turnPromise[t]] \notin Unsettled
         THEN resumeFrom(IF st.m.promise[st.v.turnPromise[t]] = "resolved"
                         THEN speakResolved(st, t)
                         ELSE speakRejected(st, t), t + 1)
         ELSE resumeFrom(st, t + 1)

resumeSettled(st) == resumeFrom(st, 1)

\* processSpeech(), agent.js 223-241, up to `await this.onResponseCallback`.
processSpeech(st) ==
    IF Trim(st.v.transcript) = <<>>
    THEN st
    ELSE updateStatus([st EXCEPT !.v.handed = Append(@, Trim(st.v.transcript)),
                                 !.v.transcript = <<>>,
                                 !.v.turn[Len(st.v.handed) + 1] = "awaitReply"],
                      "processing")

\* processSpeech resumed: with the reply, `await this.speak(aiResponse)`;
\* with the callback's rejection, the catch.
replyArrives(st, t, ok) ==
    IF ok
    THEN voiceSpeak(st, t)
    ELSE updateStatus([st EXCEPT !.v.turn[t] = "done"], "listening")

\* handleSpeechResult without `clearTimeout(this.silenceTimer)`.
handleSpeechResult_noClear(st, isFinal, seg, id) ==
    LET s1 == interrupt(st)
        s2 == updateStatus(s1, "speaking")
    IN  IF isFinal
        THEN updateStatus([s2 EXCEPT !.v.transcript = Append(@, seg),
                                     !.v.timers = @ \cup {id},
                                     !.v.silenceTimer = id],
                          "listening")
        ELSE s2

\* handleSpeechResult(event), agent.js 193-218, for a result whose last
\* entry is final or not and carries segment seg; id names the timer armed.
handleSpeechResult(st, isFinal, seg, id) ==
    LET s1 == interrupt(st)
        s2 == updateStatus([s1 EXCEPT !.v.timers = @ \ {s1.v.silenceTimer}], "speaking")
    IN  IF isFinal
        THEN updateStatus([s2 EXCEPT !.v.transcript = Append(@, seg),
                                     !.v.timers = @ \cup {id},
                                     !.v.silenceTimer = id],
                          "listening")
        ELSE s2

\* An end handler that restarts nothing.
handleRecognitionEnd_noRestart(st) == st

handleRecognitionEnd(st) ==
    IF st.v.isListening /\ st.v.recognition THEN recognitionStart(st) ELSE st

handleError(st, error) ==
    IF error \in {"no-speech", "aborted"}
    THEN st
    ELSE IF st.v.isListening
         THEN [st EXCEPT !.v.restartTimers = @ + 1]
         ELSE st

\* The callback of handleError's timer, agent.js 377-383: this.recognition
\* is null after stop(), and the TypeError is caught.
restartTimerFires(st) ==
    LET s1 == [st EXCEPT !.v.restartTimers = @ - 1]
    IN  IF s1.v.recognition THEN recognitionStart(s1) ELSE s1

\* start(), agent.js 125-135, up to `await this.murfClient.connect()`.
start(st) ==
    IF st.m.socket \in {"open", "connecting"}
    THEN st
    ELSE [st EXCEPT !.m = connect(st.m, StartWaiter), !.v.startPc = "awaitConnect"]

\* start() resumed, agent.js 137-175, in a browser that has SpeechRecognition
\* on a secure origin: the connection's failure is caught and logged.
startResumed(st) ==
    LET s1 == [st EXCEPT !.v.recognition = TRUE, !.v.recState = "idle",
                         !.v.startPc = "done"]
    IN  [recognitionStart(s1) EXCEPT !.v.isListening = TRUE]

stop(st) ==
    LET s1 == [st EXCEPT !.v.isListening = FALSE,
                         !.v.isSpeaking = FALSE,
                         !.v.timers = @ \ {st.v.silenceTimer},
                         !.v.stopped = TRUE]
        s2 == IF s1.v.recognition
              THEN [recognitionStop(s1) EXCEPT !.v.recognition = FALSE]
              ELSE s1
    IN  updateStatus([s2 EXCEPT !.m = disconnect(s2.m)], "idle")

\* The continuation of whoever awaited the connect promise, settled by the
\* socket's open (ok) or error event.
connectSettled(st, w, ok) ==
    IF w.kind = "vhStart"
    THEN startResumed(st)
    ELSE IF w.kind = "vhSpeak"
         THEN IF ok THEN speakCall(st, w.id) ELSE speakRejected(st, w.id)
         ELSE st

\* ------------------------------------------------------- voice actions

State == [m |-> murf, v |-> vh]

\* The step to state st, after the continuations of the promises it settled.
Becomes(st) ==
    LET r == resumeSettled(st)
    IN  /\ murf' = r.m
        /\ vh' = r.v
        /\ server' = [server EXCEPT !.streaming = StreamingAfter(r.m)]

\* The same, for a step that ends the streams of the socket.
BecomesClosed(st) ==
    LET r == resumeSettled(st)
    IN  /\ murf' = r.m
        /\ vh' = r.v
        /\ server' = [server EXCEPT !.streaming = {}]

\* The user enters voice mode.
VStart ==
    /\ vh.startPc = "new"
    /\ ~vh.stopped
    /\ Becomes(start(State))
    /\ UNCHANGED env
    /\ UNCHANGED <<api, pageVars>>

\* The user leaves voice mode.
VStop ==
    /\ vh.startPc # "new"
    /\ ~vh.stopped
    /\ BecomesClosed(stop(State))
    /\ env' = [env EXCEPT !.closes = @ + (IF murf.socket \in {"open", "connecting"} THEN 1 ELSE 0)]
    /\ UNCHANGED <<api, pageVars>>

\* interrupt() called from outside the recognizer's events.
VInterrupt ==
    /\ vh.startPc = "done"
    /\ Becomes(interrupt(State))
    /\ UNCHANGED env
    /\ UNCHANGED <<api, pageVars>>

\* The recognizer's start event, agent.js 162-165.
RecStarted ==
    /\ vh.recState = "starting"
    /\ Becomes(updateStatus([State EXCEPT !.v.recState = "running"], "listening"))
    /\ UNCHANGED env
    /\ UNCHANGED <<api, pageVars>>

\* The recognizer's result event; after stop() it still delivers what it
\* had captured.
RecResult(maxFinals) ==
    /\ vh.recState \in {"running", "stopping"}
    /\ \E isFinal \in BOOLEAN, word \in BOOLEAN :
        /\ IF isFinal THEN Len(vh.heard) < maxFinals ELSE word
        /\ LET id  == Len(vh.heard) + 1
               seg == [id |-> id, word |-> word]
               s1  == handleSpeechResult(State, isFinal, seg, id)
           IN  Becomes([s1 EXCEPT !.v.heard = IF isFinal THEN Append(@, seg) ELSE @,
                                  !.v.lastResult = IF isFinal THEN "final" ELSE "partial"])
    /\ UNCHANGED env
    /\ UNCHANGED <<api, pageVars>>

\* The recognizer's end event: after stop(), after an error, or on its own.
RecEnd ==
    /\ vh.recState \in {"running", "stopping"}
    /\ Becomes(handleRecognitionEnd([State EXCEPT !.v.recState = "idle"]))
    /\ UNCHANGED env
    /\ UNCHANGED <<api, pageVars>>

\* The recognizer's error event; its end event follows.
RecError(maxErrors, errors) ==
    /\ vh.recState \in {"starting", "running"}
    /\ vh.restartTimers < maxErrors
    /\ \E error \in errors :
        Becomes(handleError([State EXCEPT !.v.recState = "stopping"], error))
    /\ UNCHANGED env
    /\ UNCHANGED <<api, pageVars>>

\* The silence timer fires, agent.js 212-214.
SilenceTimer ==
    /\ \E id \in vh.timers :
        Becomes(processSpeech([State EXCEPT !.v.timers = @ \ {id}]))
    /\ UNCHANGED env
    /\ UNCHANGED <<api, pageVars>>

\* onResponseCallback settles for turn t.
Reply ==
    /\ \E t \in Turns, ok \in BOOLEAN :
        /\ vh.turn[t] = "awaitReply"
        /\ Becomes(replyArrives(State, t, ok))
    /\ UNCHANGED env
    /\ UNCHANGED <<api, pageVars>>

ResumeTimer ==
    /\ vh.resumeTimers > 0
    /\ Becomes(resumeTimerFires(State))
    /\ UNCHANGED env
    /\ UNCHANGED <<api, pageVars>>

RestartTimer ==
    /\ vh.restartTimers > 0
    /\ Becomes(restartTimerFires(State))
    /\ UNCHANGED env
    /\ UNCHANGED <<api, pageVars>>

StatusTimer ==
    /\ vh.statusTimers > 0
    /\ Becomes(statusTimerFires(State))
    /\ UNCHANGED env
    /\ UNCHANGED <<api, pageVars>>

VSocketOpen ==
    /\ murf.socket = "connecting"
    /\ Becomes(connectSettled([State EXCEPT !.m = onopen(murf)], murf.connWaiter, TRUE))
    /\ env' = [env EXCEPT !.autoAttempts = 0]
    /\ UNCHANGED <<api, pageVars>>

VOrphanClose ==
    /\ \E i \in 1..Len(murf.orphans) :
        Becomes(connectSettled([State EXCEPT !.m = orphanClose(murf, i)],
                               murf.orphans[i], FALSE))
    /\ UNCHANGED env
    /\ UNCHANGED <<api, pageVars>>

VReconnectTimer ==
    /\ murf.reconnectTimers > 0
    /\ Becomes([State EXCEPT !.m = reconnectTimerFires(murf)])
    /\ env' = [env EXCEPT !.autoAttempts =
                   IF murf.socket \in {"null", "closed"} THEN @ + 1 ELSE @]
    /\ UNCHANGED <<api, pageVars>>

\* A frame of the server; errorFrames says whether it may carry an error.
VFrame(maxChunks, errorFrames) ==
    /\ murf.socket = "open"
    /\ \E c \in server.streaming, audio \in {"none", "samples", "empty"},
          isFinalAudio \in BOOLEAN, error \in errorFrames :
        /\ audio # "none" \/ isFinalAudio \/ error
        /\ audio # "none" => server.chunks < maxChunks
        /\ LET r == resumeSettled([State EXCEPT !.m =
                        onmessage(murf, <<c, server.chunks + 1>>, audio, isFinalAudio, error)])
           IN  /\ murf' = r.m
               /\ vh' = r.v
        /\ server' = [streaming |-> IF isFinalAudio \/ error
                                    THEN server.streaming \ {c}
                                    ELSE server.streaming,
                      chunks |-> IF audio # "none"
                                 THEN server.chunks + 1
                                 ELSE server.chunks]
    /\ UNCHANGED env
    /\ UNCHANGED <<api, pageVars>>

VSourceEnded ==
    /\ \E src \in murf.activeSources \cup murf.stoppedSources :
        Becomes([State EXCEPT !.m = onended(murf, src)])
    /\ UNCHANGED env
    /\ UNCHANGED <<api, pageVars>>

\* ------------------------------------------------------------------ api.js

Calls == 1..(IF MaxCalls > MaxCallsT THEN MaxCalls ELSE MaxCallsT)

\* An entry of conversationHistory; the content is the one of call c.
Entry(role, c) == [role |-> role, call |-> c]

\* The module after loading: `let conversationHistory = []`, no call made.
ApiInit ==
    [ conversationHistory |-> <<>>,
      pc        |-> [c \in Calls |-> "none"],   \* where call c of sendMessage is
      calls     |-> 0,                          \* calls made
      userPushes      |-> [c \in Calls |-> 0],  \* pushes of the user entry of c
      assistantPushes |-> [c \in Calls |-> 0] ] \* pushes of its assistant entry

\* array.slice(-n)
SliceLast(h, n) ==
    IF Len(h) > n THEN SubSeq(h, Len(h) - n + 1, Len(h)) ELSE h

\* The push of the assistant entry, api.js 82-85, done twice.
pushAssistant_twice(s, c) ==
    [s EXCEPT !.conversationHistory = @ \o <<Entry("assistant", c), Entry("assistant", c)>>,
              !.assistantPushes[c] = @ + 2]

\* The push of the assistant entry, api.js 82-85.
pushAssistant(s, c) ==
    [s EXCEPT !.conversationHistory = Append(@, Entry("assistant", c)),
              !.assistantPushes[c] = @ + 1]

\* sendMessage(userMessage), api.js 25-59, for call c, up to `await fetch`.
\* advanceStage, trackMessageSent and buildSystemPrompt, called before the
\* push, return for a string message and an object pageContext.
sendMessage(s, c) ==
    LET pushed == Append(s.conversationHistory, Entry("user", c))
    IN  [s EXCEPT !.conversationHistory =
                      IF Len(pushed) > MAX_HISTORY_LENGTH * 2
                      THEN SliceLast(pushed, MAX_HISTORY_LENGTH * 2)
                      ELSE pushed,
                  !.userPushes[c] = @ + 1,
                  !.calls = c,
                  !.pc[c] = "awaitFetch"]

\* sendMessage resumed with fetch's outcome, api.js 59-78: a rejection is
\* caught and rethrown; a response is read, as the error or as the reply.
fetchSettled(s, c, outcome) ==
    [s EXCEPT !.pc[c] = CASE outcome = "rejected" -> "failed"
                          [] outcome = "notOk"    -> "awaitErrorBody"
                          [] OTHER                -> "awaitBody"]

\* sendMessage resumed with the body, api.js 73-94: after the error body the
\* throw; a rejection, or a body without choices[0].message, is caught and
\* rethrown; with the reply the push of the assistant entry and the return.
bodySettled(s, c, outcome) ==
    IF s.pc[c] = "awaitErrorBody" \/ outcome # "reply"
    THEN [s EXCEPT !.pc[c] = "failed"]
    ELSE [pushAssistant(s, c) EXCEPT !.pc[c] = "done"]

InFlight == {c \in Calls : api.pc[c] \in {"awaitFetch", "awaitErrorBody", "awaitBody"}}

\* The widget, or the voice session, sends a message.
SendMessage(maxCalls, maxInFlight) ==
    /\ api.calls < maxCalls
    /\ Cardinality(InFlight) < maxInFlight
    /\ api' = sendMessage(api, api.calls + 1)
    /\ UNCHANGED <<murf, server, env, vh, pageVars>>

FetchSettles ==
    /\ \E c \in Calls, outcome \in {"rejected", "notOk", "ok"} :
        /\ api.pc[c] = "awaitFetch"
        /\ api' = fetchSettled(api, c, outcome)
    /\ UNCHANGED <<murf, server, env, vh, pageVars>>

BodySettles ==
    /\ \E c \in Calls, outcome \in {"rejected", "malformed", "reply"} :
        /\ api.pc[c] \in {"awaitErrorBody", "awaitBody"}
        /\ api' = bodySettled(api, c, outcome)
    /\ UNCHANGED <<murf, server, env, vh, pageVars>>

\* ---------------------------------------------------------------- cache.js

Keys == {"k1", "k2"}
Values == {"v1", "v2"}
Absent == "absent"     \* Map.prototype.get of a key the map lacks
Null == "null"
NoTimestamp == [created |-> 0, ttl |-> 0]
NoBatch == <<>>        \* debounceTimer holds no pending timer
NoWrite == [isSet |-> FALSE, value |-> Null, created |-> 0, ttl |-> 0]

\* new ContentCache(), cache.js 7-11, at time 0, with no observer callback
\* run yet.
CacheInit ==
    [ cache      |-> [k \in Keys |-> Absent],
      timestamps |-> [k \in Keys |-> NoTimestamp],
      \* run-time objects
      now        |-> 0,        \* Date.now()
      debounce   |-> NoBatch,  \* the batch the pending debounce timer closes over
      batches    |-> 0,        \* batches delivered to the observer callback
      \* what the callers did
      gets       |-> 0,
      lastGet    |-> [key |-> Absent, result |-> Null],
      written    |-> [k \in Keys |-> NoWrite],  \* the last set, not deleted since
      significantSeen |-> FALSE ]  \* a significant mutation since the last flush

\* set(key, value, ttl), cache.js 19-25.
cacheSet(s, key, value, ttl) ==
    [s EXCEPT !.cache[key] = value,
              !.timestamps[key] = [created |-> s.now, ttl |-> ttl]]

\* delete(key), cache.js 62-65.
cacheDelete(s, key) ==
    [s EXCEPT !.cache[key] = Absent, !.timestamps[key] = NoTimestamp]

\* clear(), cache.js 70-73; after it nothing set is left, and no significant
\* mutation is left unanswered.
cacheClear(s) ==
    [s EXCEPT !.cache = [k \in Keys |-> Absent],
              !.timestamps = [k \in Keys |-> NoTimestamp],
              !.written = [k \in Keys |-> NoWrite],
              !.significantSeen = FALSE]

\* get(key) without the check of the age.
cacheGet_noExpiry(s, key) ==
    [s EXCEPT !.lastGet = [key |-> key,
                           result |-> IF s.cache[key] = Absent THEN Null ELSE s.cache[key]]]

\* get(key), cache.js 32-47; lastGet is what it returned.
cacheGet(s, key) ==
    IF s.cache[key] = Absent
    THEN [s EXCEPT !.lastGet = [key |-> key, result |-> Null]]
    ELSE IF s.now - s.timestamps[key].created > s.timestamps[key].ttl
         THEN [cacheDelete(s, key) EXCEPT !.lastGet = [key |-> key, result |-> Null]]
         ELSE [s EXCEPT !.lastGet = [key |-> key, result |-> s.cache[key]]]

\* clearExpired(), cache.js 78-86.
clearExpired(s) ==
    LET expired == {k \in Keys : /\ s.cache[k] # Absent
                                 /\ s.now - s.timestamps[k].created > s.timestamps[k].ttl}
    IN  [s EXCEPT !.cache = [k \in Keys |-> IF k \in expired THEN Absent ELSE @[k]],
                  !.timestamps = [k \in Keys |-> IF k \in expired THEN NoTimestamp ELSE @[k]]]

\* A mutation record: its type, whether its target is #blitsum-root or inside
\* it, and whether the target's textContent is longer than 10.
Mutations == [type : {"childList", "characterData"}, inRoot : BOOLEAN, long : BOOLEAN]

\* The callback of mutations.some, cache.js 213-223.  The target of a
\* characterData record is a Text node: it has no id and no closest method,
\* and the call of mutation.target.closest throws TypeError.
significant(m) ==
    IF m.type = "characterData"
    THEN "throws"
    ELSE IF m.inRoot THEN "false" ELSE "true"

\* mutations.some(...), which stops at the first record found significant.
RECURSIVE someSignificant(_)
someSignificant(batch) ==
    IF batch = <<>>
    THEN "false"
    ELSE IF significant(Head(batch)) = "false"
         THEN someSignificant(Tail(batch))
         ELSE significant(Head(batch))

\* The observer callback, cache.js 208-230: clearTimeout, then a new timer
\* that closes over this batch only.
observerCallback(s, batch) ==
    [s EXCEPT !.debounce = batch]

\* The timer callback, cache.js 211-229; an exception ends it.
debounceFires(s) ==
    LET s1 == [s EXCEPT !.debounce = NoBatch]
    IN  IF someSignificant(s.debounce) = "true" THEN cacheClear(s1) ELSE s1

\* What the observer is meant to act on: a childList change, or a
\* characterData change of text longer than 10, outside the SDK's root.
IsSignificant(m) ==
    ~m.inRoot /\ (m.type = "childList" \/ m.long)

RECURSIVE BatchesOf(_)
BatchesOf(n) ==
    IF n = 0 THEN {} ELSE [1..n -> Mutations] \cup BatchesOf(n - 1)

CacheSet(keys, ttls) ==
    /\ \E k \in keys, v \in Values, ttl \in ttls :
        cache' = [cacheSet(cache, k, v, ttl) EXCEPT
                     !.written[k] = [isSet |-> TRUE, value |-> v,
                                     created |-> cache.now, ttl |-> ttl]]
    /\ UNCHANGED notCache

CacheGet(maxGets) ==
    /\ cache.gets < maxGets
    /\ \E k \in Keys : cache' = [cacheGet(cache, k) EXCEPT !.gets = @ + 1]
    /\ UNCHANGED notCache

\* invalidateCache(key), cache.js 126-132.
InvalidateCache ==
    /\ \E k \in Keys :
        cache' = [cacheDelete(cache, k) EXCEPT !.written[k] = NoWrite]
    /\ UNCHANGED notCache

\* The interval of setupAutoCacheCleanup, cache.js 196-200.
CleanupInterval ==
    /\ cache' = clearExpired(cache)
    /\ UNCHANGED notCache

Tick(maxTime) ==
    /\ cache.now < maxTime
    /\ cache' = [cache EXCEPT !.now = @ + 1]
    /\ UNCHANGED notCache

\* The page changes and the observer delivers the batch of records.
Mutate(maxBatchLen, maxBatches) ==
    /\ cache.batches < maxBatches
    /\ \E batch \in BatchesOf(maxBatchLen) :
        cache' = [observerCallback(cache, batch) EXCEPT
                     !.batches = @ + 1,
                     !.significantSeen =
                         @ \/ \E i \in 1..Len(batch) : IsSignificant(batch[i])]
    /\ UNCHANGED notCache

\* One second passes with no further mutation.
DebounceFires ==
    /\ cache.debounce # NoBatch
    /\ cache' = debounceFires(cache)
    /\ UNCHANGED notCache

\* ------------------------------------------------------- visual effects

\* The inline style properties the effects write.
Props == {"boxShadow", "transform", "outline", "transition", "zIndex", "position"}

\* One element with the inline style it has before any effect, no timer.
FxInit ==
    [ style   |-> [p \in Props |-> "orig"],
      timers  |-> {},      \* pending timers: the call, what it does, its snapshot
      effects |-> 0 ]      \* calls made

\* The values a call stores before it writes: those of props.
Snapshot(style, props) ==
    [p \in Props |-> IF p \in props THEN style[p] ELSE "unsaved"]

\* The style with the snapshot's properties written back.
Restored(style, saved) ==
    [p \in Props |-> IF saved[p] = "unsaved" THEN style[p] ELSE saved[p]]

\* The style with props set to the values of an effect.
Applied(style, props, value) ==
    [p \in Props |-> IF p \in props THEN value ELSE style[p]]

\* highlightElement(selector), 29-47, as call id, for a selector that matches.
highlightElement(s, id) ==
    [s EXCEPT !.style = Applied(@, {"transition", "boxShadow", "transform"}, "highlight"),
              !.timers = @ \cup {[id |-> id, does |-> "restore",
                                  saved |-> Snapshot(s.style, {"boxShadow", "transform"})]},
              !.effects = id]

\* compareElements(descriptions), 104-160, as call id, the element found.
compareElements(s, id) ==
    [s EXCEPT !.style = Applied(@, {"transition", "boxShadow", "transform", "outline"},
                                "compare"),
              !.timers = @ \cup {[id |-> id, does |-> "restore",
                                  saved |-> Snapshot(s.style, {"boxShadow", "transform",
                                                               "outline", "transition"})]},
              !.effects = id]

\* focusElement(description), 239-282, as call id, the element found: one
\* timer of 600 ms applies the effect, one of duration + 600 ms restores.
focusElement(s, id) ==
    LET saved == Snapshot(s.style, {"boxShadow", "transform", "zIndex", "position"})
    IN  [s EXCEPT !.timers = @ \cup {[id |-> id, does |-> "apply", saved |-> saved],
                                     [id |-> id, does |-> "restore", saved |-> saved]},
                  !.effects = id]

\* The callback of timer tm.
fxTimerFires(s, tm) ==
    [s EXCEPT !.timers = @ \ {tm},
              !.style = IF tm.does = "apply"
                        THEN Applied(@, {"transition", "boxShadow", "transform",
                                         "zIndex", "position"}, "focus")
                        ELSE Restored(@, tm.saved)]

HighlightElement(maxEffects) ==
    /\ fx.effects < maxEffects
    /\ fx' = highlightElement(fx, fx.effects + 1)
    /\ UNCHANGED notFx

CompareElements(maxEffects) ==
    /\ fx.effects < maxEffects
    /\ fx' = compareElements(fx, fx.effects + 1)
    /\ UNCHANGED notFx

FocusElement(maxEffects) ==
    /\ fx.effects < maxEffects
    /\ fx' = focusElement(fx, fx.effects + 1)
    /\ UNCHANGED notFx

\* A timer fires; the restore timer of a focus fires after its apply timer.
FxTimer ==
    /\ \E tm \in fx.timers :
        /\ tm.does = "restore" =>
               ~\E other \in fx.timers : other.id = tm.id /\ other.does = "apply"
        /\ fx' = fxTimerFires(fx, tm)
    /\ UNCHANGED notFx

\* ------------------------------------------------------ navigationAgent.js

Plans == 1..MaxPlans

\* What executeAction does with an action: it returns a result with success
\* true or false, or it throws (an unknown type, an exception of the handler).
ActionKinds == {"succeeds", "fails", "throws"}

RECURSIVE PlansOf(_)
PlansOf(n) ==
    IF n = 0 THEN {<<>>} ELSE [1..n -> ActionKinds] \cup PlansOf(n - 1)

NoAction == 0
NoPlan == [plan |-> <<>>, pc |-> "none", started |-> 0, results |-> <<>>]

\* What listAvailableElements can name, navigationAgent.js 406-424.
Categories == {"pricing", "features", "signup options"}

NoResponse == [kind |-> "none", success |-> FALSE, names |-> {}]
NoRoute == [intent |-> "none", confidence |-> 0, isNavRequest |-> FALSE]
NoPlanned == [intent |-> "none", target |-> "unknown", entities |-> 0,
              actions |-> <<>>, on |-> "none"]

\* new NavigationAgent(), navigationAgent.js 17-22, no call made.
NavInit ==
    [ currentAction |-> NoAction,           \* <<call, index>> of the action
      run           |-> [c \in Plans |-> NoPlan],
      calls         |-> 0,
      pageContext   |-> {},                 \* the categories the context holds
      history       |-> <<>>,               \* this.history
      navigates     |-> 0,                  \* calls of navigate made so far
      navigated     |-> [c \in Plans |-> FALSE],  \* navigate awaits plan c
      routed        |-> NoRoute,            \* the widget's last routing decision
      planned       |-> NoPlanned,          \* the intent navigate planned last
      response      |-> NoResponse ]        \* what navigate returned last

\* The loop of executeActionPlan from action i on, 181-186 and 200-208, up
\* to its next await: `this.currentAction = action` and the call of
\* executeAction, whose body runs at the call; or the end of the loop.
nextAction(s, c, i) ==
    IF i > Len(s.run[c].plan)
    THEN [s EXCEPT !.currentAction = NoAction, !.run[c].pc = "done"]
    ELSE [s EXCEPT !.currentAction = <<c, i>>,
                   !.run[c].started = i,
                   !.run[c].pc = "awaitAction"]

\* executeActionPlan(actionPlan), 178-186, as call c.
executeActionPlan(s, c, plan) ==
    nextAction([s EXCEPT !.calls = c,
                         !.run[c] = [plan |-> plan, pc |-> "none",
                                     started |-> 0, results |-> <<>>]], c, 1)

\* The await of executeAction settles and the catch ends the loop.
actionSettled_stopOnThrow(s, c) ==
    LET r == s.run[c]
        i == r.started
    IN  IF r.plan[i] = "throws"
        THEN [s EXCEPT !.run[c].results = Append(@, [success |-> FALSE, of |-> i,
                                                     caught |-> TRUE]),
                       !.currentAction = NoAction,
                       !.run[c].pc = "done"]
        ELSE LET s1 == [s EXCEPT !.run[c].results =
                                    Append(@, [success |-> r.plan[i] = "succeeds",
                                               of |-> i, caught |-> FALSE])]
             IN  IF Len(r.plan) > 1
                 THEN [s1 EXCEPT !.run[c].pc = "awaitDelay"]
                 ELSE nextAction(s1, c, i + 1)

\* The await of executeAction settles, 186-199: the result is pushed and the
\* delay awaited if the plan has more than one action; a rejection is caught,
\* a failed result pushed and the loop goes on at once.
actionSettled(s, c) ==
    LET r == s.run[c]
        i == r.started
    IN  IF r.plan[i] = "throws"
        THEN nextAction([s EXCEPT !.run[c].results =
                                     Append(@, [success |-> FALSE, of |-> i,
                                                caught |-> TRUE])], c, i + 1)
        ELSE LET s1 == [s EXCEPT !.run[c].results =
                                    Append(@, [success |-> r.plan[i] = "succeeds",
                                               of |-> i, caught |-> FALSE])]
             IN  IF Len(r.plan) > 1
                 THEN [s1 EXCEPT !.run[c].pc = "awaitDelay"]
                 ELSE nextAction(s1, c, i + 1)

\* `await this.delay(400)` is over, 190-192.
delayOver(s, c) ==
    nextAction(s, c, s.run[c].started + 1)

\* ------------------------------------------------------------ intentParser.js

IntentTypes == {"navigate", "compare", "highlight", "read", "click", "unknown"}

\* What the parser can tell of an utterance: the intent group with the best
\* keyword score ("unknown": no keyword of any group), whether a target
\* keyword matches as a whole word, whether a target phrase occurs in it
\* without being a whole-word match ("somehow much"), how many names of the
\* page context it holds and how many of the common plan names.
Utterances(maxNames) ==
    [verb : IntentTypes, targetWord : BOOLEAN, targetPhrase : BOOLEAN,
     contextNames : 0..maxNames, commonPlans : 0..maxNames]

\* classifyIntent, intentParser.js 92-121.
classifyIntent(u) ==
    IF u.verb # "unknown" THEN u.verb
    ELSE IF u.targetWord THEN "navigate"
    ELSE "unknown"

\* classifyTarget, intentParser.js 128-150: a phrase counts by substring.
classifyTarget(u) ==
    IF u.targetWord \/ u.targetPhrase THEN "known" ELSE "unknown"

\* extractEntities, intentParser.js 158-202: the number of entities; the
\* names of the page context count only with a context that holds them.
extractEntities(u, withContext) ==
    (IF withContext THEN u.contextNames ELSE 0) + u.commonPlans

\* calculateConfidence, intentParser.js 211-224, in tenths.
calculateConfidence(intentType, targetType, entities) ==
    LET score == (IF intentType # "unknown" THEN 4 ELSE 0)
                   + (IF targetType # "unknown" THEN 3 ELSE 0)
                   + (IF entities > 0 THEN 3 ELSE 0)
    IN  IF score < 10 THEN score ELSE 10

\* parseNavigationIntent, intentParser.js 64-86.
parseNavigationIntent(u, withContext) ==
    LET intentType == classifyIntent(u)
        targetType == classifyTarget(u)
        entities   == extractEntities(u, withContext)
    IN  [ intent     |-> intentType,
          target     |-> targetType,
          entities   |-> entities,
          confidence |-> calculateConfidence(intentType, targetType, entities) ]

\* A test of the confidence alone.
isNavigationRequest_anyIntent(u) ==
    parseNavigationIntent(u, FALSE).confidence >= 5

\* isNavigationRequest, intentParser.js 231-234: it parses with no page
\* context.
isNavigationRequest(u) ==
    LET intent == parseNavigationIntent(u, FALSE)
    IN  intent.confidence >= 5 /\ intent.intent # "unknown"

\* -------------------------------------------------- NavigationAgent.navigate

\* A plan that goes to the target first whatever the intent.
planActions_navigateFirst(intent) ==
    CASE intent.intent = "compare"   ->
            IF intent.entities >= 2 THEN <<"navigate", "compare">> ELSE <<"navigate">>
      [] intent.intent = "highlight" -> <<"navigate", "focus">>
      [] intent.intent = "read"      -> <<"navigate", "read">>
      [] intent.intent = "click"     -> <<"click">>
      [] OTHER                       -> <<"navigate">>

\* `intent.entities[0] || intent.target`, navigationAgent.js 137, 152, 159:
\* what a focus, read or click action is aimed at.
actionTarget(intent) ==
    IF intent.entities > 0 THEN "entity" ELSE intent.target

\* planActions, navigationAgent.js 89-171: the types of the actions planned.
planActions(intent) ==
    LET nav1 == IF intent.target # "unknown" THEN <<"navigate">> ELSE <<>>
    IN  CASE intent.intent = "navigate"  -> <<"navigate">>
          [] intent.intent = "compare"   ->
                IF intent.entities >= 2 THEN nav1 \o <<"compare">> ELSE nav1
          [] intent.intent = "highlight" -> nav1 \o <<"focus">>
          [] intent.intent = "read"      -> nav1 \o <<"read">>
          [] intent.intent = "click"     -> <<"click">>
          [] OTHER                       -> nav1

\* The return of navigate for a confidence below 0.5, navigationAgent.js
\* 45-51: a fixed sentence.
lowConfidenceResponse ==
    [kind |-> "lowConfidence", success |-> FALSE, names |-> {}]

\* The return of navigate for an empty plan, navigationAgent.js 57-63.
noPlanResponse ==
    [kind |-> "noPlan", success |-> FALSE, names |-> {}]

\* generateResponse, navigationAgent.js 310-348, with generateErrorResponse
\* and listAvailableElements, 396-424.
generateResponse(results, available) ==
    IF \A j \in 1..Len(results) : results[j].success
    THEN [kind |-> "done", success |-> TRUE, names |-> {}]
    ELSE [kind |-> "failed", success |-> FALSE, names |-> available]

\* navigate(userInput), navigationAgent.js 37-66, up to its await; outcomes
\* says what executeAction will do with each action planned.
navigate(s, u, outcomes) ==
    LET intent == parseNavigationIntent(u, s.pageContext # {})
        s0     == [s EXCEPT !.navigates = @ + 1]
        s1     == [s0 EXCEPT !.planned =
                      [intent   |-> intent.intent,
                       target   |-> intent.target,
                       entities |-> intent.entities,
                       actions  |-> planActions(intent),
                       on       |-> actionTarget(intent)]]
    IN  IF intent.confidence < 5
        THEN [s0 EXCEPT !.response = lowConfidenceResponse]
        ELSE IF planActions(intent) = <<>>
             THEN [s1 EXCEPT !.response = noPlanResponse]
             ELSE [executeActionPlan(s1, s.calls + 1, outcomes)
                      EXCEPT !.navigated[s.calls + 1] = TRUE,
                             !.response = NoResponse]

\* navigate resumed when its plan has run, navigationAgent.js 66-81.
navigateResumed(s, c) ==
    LET response == generateResponse(s.run[c].results, s.pageContext)
    IN  [s EXCEPT !.history = Append(@, [call |-> c, success |-> response.success]),
                  !.response = response]

\* updateContext(newContext), navigationAgent.js 28-30.
UpdateContext ==
    /\ \E available \in SUBSET Categories :
        /\ available # nav.pageContext
        /\ nav' = [nav EXCEPT !.pageContext = available]
    /\ UNCHANGED notNav

\* The widget's sendMessage handler, part_009 187-222: a navigation request
\* goes to navigate, any other message to sendToGrok (SendMessage above).
ChatMessage(maxNavigates, maxPlans, maxNames) ==
    /\ nav.navigates < maxNavigates
    /\ \E u \in Utterances(maxNames) :
        LET parsed0 == parseNavigationIntent(u, FALSE)
            intent  == parseNavigationIntent(u, nav.pageContext # {})
            plan    == planActions(intent)
            route   == [intent       |-> parsed0.intent,
                        confidence   |-> parsed0.confidence,
                        isNavRequest |-> isNavigationRequest(u)]
        IN  /\ (nav.pageContext = {}) => u.contextNames = 0
            /\ IF route.isNavRequest
               THEN /\ (intent.confidence >= 5 /\ plan # <<>>) => nav.calls < maxPlans
                    /\ \E outcomes \in [1..Len(plan) -> ActionKinds] :
                        nav' = [navigate(nav, u, outcomes) EXCEPT !.routed = route]
               ELSE nav' = [nav EXCEPT !.navigates = @ + 1, !.routed = route]
    /\ UNCHANGED notNav

\* navigate(userInput) is called on the agent.
Navigate(maxNavigates, maxPlans, maxNames) ==
    /\ nav.navigates < maxNavigates
    /\ \E u \in Utterances(maxNames) :
        LET intent == parseNavigationIntent(u, nav.pageContext # {})
            plan   == planActions(intent)
        IN  /\ (nav.pageContext = {}) => u.contextNames = 0
            /\ (intent.confidence >= 5 /\ plan # <<>>) => nav.calls < maxPlans
            /\ \E outcomes \in [1..Len(plan) -> ActionKinds] :
                nav' = navigate(nav, u, outcomes)
    /\ UNCHANGED notNav

\* The plan of a navigate call has run and the call goes on.
NavigateResumes ==
    /\ \E c \in Plans :
        /\ nav.run[c].pc = "done"
        /\ nav.navigated[c]
        /\ \A j \in 1..Len(nav.history) : nav.history[j].call # c
        /\ nav' = navigateResumed(nav, c)
    /\ UNCHANGED notNav

\* navigate() reaches executeActionPlan with the plan it made.
ExecuteActionPlan(maxPlans, maxPlanLen) ==
    /\ nav.calls < maxPlans
    /\ \E plan \in PlansOf(maxPlanLen) :
        nav' = executeActionPlan(nav, nav.calls + 1, plan)
    /\ UNCHANGED notNav

ActionSettles ==
    /\ \E c \in Plans :
        /\ nav.run[c].pc = "awaitAction"
        /\ nav' = actionSettled(nav, c)
    /\ UNCHANGED notNav

DelayOver ==
    /\ \E c \in Plans :
        /\ nav.run[c].pc = "awaitDelay"
        /\ nav' = delayOver(nav, c)
    /\ UNCHANGED notNav

\* ------------------------------------------------- engagementTriggers.js

\* A rule table given to addTrigger, in the order of the calls; cooldown and
\* delay in ticks of the clock.
Rules ==
    << [id |-> "exit",    priority |-> "low",      cooldown |-> 2, delay |-> 1],
       [id |-> "pricing", priority |-> "critical", cooldown |-> 2, delay |-> 1],
       [id |-> "idle",    priority |-> "high",     cooldown |-> 1, delay |-> 0] >>

RuleIds == {Rules[i].id : i \in 1..Len(Rules)}
Rule(id) == CHOOSE r \in {Rules[i] : i \in 1..Len(Rules)} : r.id = id

\* const priorityOrder = { critical: 0, high: 1, medium: 2, low: 3 }
priorityOrder(priority) ==
    CASE priority = "critical" -> 0
      [] priority = "high"     -> 1
      [] priority = "medium"   -> 2
      [] priority = "low"      -> 3

\* Array.from(this.triggers.values()).sort(...), 73-76: Array.prototype.sort
\* is stable, so rules of one priority keep the order of addTrigger.
RECURSIVE sortedFrom(_, _)
sortedFrom(rules, rank) ==
    IF rank > 3
    THEN <<>>
    ELSE SelectSeq(rules, LAMBDA r : priorityOrder(r.priority) = rank)
            \o sortedFrom(rules, rank + 1)

sortedTriggers == sortedFrom(Rules, 0)

\* The constructor and addTrigger for each rule, 9-37, at time 0.
TrigInit ==
    [ firedTriggers |-> {},
      lastFired     |-> [id \in RuleIds |-> 0],
      \* run-time objects
      now           |-> 0,       \* Date.now()
      pending       |-> {},      \* delayed fires: rule, time due, number
      \* what happened
      scheduled     |-> 0,       \* delayed fires armed so far
      cycles        |-> 0,
      conditions    |-> [id \in RuleIds |-> "false"],  \* as the last cycle found them
      notified      |-> [id \in RuleIds |-> -1],       \* time of the last notification
      notifiedBefore |-> [id \in RuleIds |-> -1] ]     \* and of the one before it

\* The loop of checkTriggers, 78-107, from position i of the sorted rules;
\* cond gives what each rule's condition does with this behavior.
RECURSIVE checkFrom(_, _, _)
checkFrom(s, cond, i) ==
    IF i > Len(sortedTriggers)
    THEN s
    ELSE LET trigger == sortedTriggers[i]
         IN  IF /\ trigger.id \in s.firedTriggers
                /\ s.now - s.lastFired[trigger.id] < trigger.cooldown
             THEN checkFrom(s, cond, i + 1)
             ELSE IF cond[trigger.id] = "true"
                  THEN [s EXCEPT !.pending = @ \cup {[id |-> trigger.id,
                                                      due |-> s.now + trigger.delay,
                                                      n |-> s.scheduled + 1]},
                                 !.scheduled = @ + 1,
                                 !.firedTriggers = @ \cup {trigger.id},
                                 !.lastFired[trigger.id] = s.now]
                  ELSE checkFrom(s, cond, i + 1)

\* The loop without the cooldown check of lines 80-85.
checkTriggers_noCooldown(s, cond) ==
    LET hit == {i \in 1..Len(sortedTriggers) : cond[sortedTriggers[i].id] = "true"}
    IN  IF hit = {}
        THEN s
        ELSE LET trigger == sortedTriggers[CHOOSE i \in hit : \A j \in hit : i <= j]
             IN  [s EXCEPT !.pending = @ \cup {[id |-> trigger.id,
                                                 due |-> s.now + trigger.delay,
                                                 n |-> s.scheduled + 1]},
                            !.scheduled = @ + 1,
                            !.firedTriggers = @ \cup {trigger.id},
                            !.lastFired[trigger.id] = s.now]

\* checkTriggers(behavior), 69-108.
checkTriggers(s, cond) ==
    checkFrom(s, cond, 1)

\* fireTrigger(trigger), 113-124, from the timer of line 93: the listeners
\* are notified.
fireTrigger(s, tm) ==
    [s EXCEPT !.pending = @ \ {tm},
              !.notifiedBefore[tm.id] = s.notified[tm.id],
              !.notified[tm.id] = s.now]

\* A behavior event, or the 5 s interval, runs a cycle.
CheckTriggers(maxCycles) ==
    /\ trig.cycles < maxCycles
    /\ \E cond \in [RuleIds -> {"true", "false", "throws"}] :
        trig' = [checkTriggers(trig, cond) EXCEPT !.cycles = @ + 1,
                                                  !.conditions = cond]
    /\ UNCHANGED notTrig

\* A delayed fire runs: at the time it is due, or later (a timer is never
\* early, and late when the page is busy or in the background).
FireTimer ==
    /\ \E tm \in trig.pending :
        /\ trig.now >= tm.due
        /\ trig' = fireTrigger(trig, tm)
    /\ UNCHANGED notTrig

ClockTick(maxClock) ==
    /\ trig.now < maxClock
    /\ trig' = [trig EXCEPT !.now = @ + 1]
    /\ UNCHANGED notTrig

\* ---------------------------------------------------- conversationFlow.js

\* The kinds of signal words of detectStage; a message is modelled by the
\* kinds of which it contains a word.
Signals == {"closing", "objection", "qualification", "presentation", "discovery"}

\* new ConversationFlowManager(), conversationFlow.js 17-22, and an empty
\* conversation history.
FlowInit ==
    [ currentStage |-> "greeting",
      stageHistory |-> <<"greeting">>,
      \* the caller
      userMessages |-> 0,     \* user entries of the conversation history
      resets       |-> 0,     \* calls of reset
      lastMessage  |-> {} ]   \* the signals of the message processed last

\* detectStage(userMessage, conversationHistory), 27-69.
detectStage(s, message, messageCount) ==
    IF "closing" \in message THEN "closing"
    ELSE IF "objection" \in message THEN "objection"
    ELSE IF "qualification" \in message THEN "qualification"
    ELSE IF "presentation" \in message THEN "presentation"
    ELSE IF "discovery" \in message THEN "discovery"
    ELSE IF messageCount = 0 THEN "greeting"
    ELSE IF messageCount = 1 THEN "discovery"
    ELSE IF messageCount = 2 THEN "qualification"
    ELSE IF messageCount >= 3 THEN "presentation"
    ELSE s.currentStage

\* advanceStage with the push done whether or not the stage changes.
advanceStage_alwaysPush(s, message, messageCount) ==
    LET detectedStage == detectStage(s, message, messageCount)
    IN  [s EXCEPT !.currentStage = detectedStage,
                  !.stageHistory = Append(@, detectedStage)]

\* advanceStage(userMessage, conversationHistory), 74-85.
advanceStage(s, message, messageCount) ==
    LET detectedStage == detectStage(s, message, messageCount)
    IN  IF detectedStage # s.currentStage
        THEN [s EXCEPT !.currentStage = detectedStage,
                       !.stageHistory = Append(@, detectedStage)]
        ELSE s

\* shouldAdvanceStage(conversationHistory), 277-290.
shouldAdvanceStage(s, messageCount) ==
    IF s.currentStage \in {"objection", "closing"}
    THEN FALSE
    ELSE messageCount - Len(s.stageHistory) + 1 >= 2

\* reset(), 352-357.
reset(s) ==
    [s EXCEPT !.currentStage = "greeting", !.stageHistory = <<"greeting">>]

\* sendMessage processes a user utterance, api.js 30 and 40-43: advanceStage
\* with the history as it is, then the push of the user entry.
Utterance(maxUtterances) ==
    /\ flow.userMessages < maxUtterances
    /\ \E message \in SUBSET Signals :
        flow' = [advanceStage(flow, message, flow.userMessages) EXCEPT
                    !.userMessages = @ + 1,
                    !.lastMessage = message]
    /\ UNCHANGED notFlow

\* A caller resets the flow manager; the conversation history is the
\* caller's and stays.
ResetFlow(maxResets) ==
    /\ flow.resets < maxResets
    /\ flow' = [reset(flow) EXCEPT !.resets = @ + 1]
    /\ UNCHANGED notFlow

\* ------------------------------------------------ agent.js: parseAndExecute

\* A line of the assistant output: text, white space only, a JSON object with
\* an action field, a JSON object without one, or braces around what
\* JSON.parse rejects.
LineKinds == {"text", "blank", "directive", "object", "malformed"}

\* The outputs of up to n lines; a line is its kind and its position.
RECURSIVE OutputsOf(_)
OutputsOf(n) ==
    IF n = 0
    THEN {}
    ELSE {[i \in 1..n |-> [kind |-> k[i], at |-> i]] : k \in [1..n -> LineKinds]}
            \cup OutputsOf(n - 1)

NoDirective == 0

\* Before any output is parsed.
ParsedInit ==
    [ input |-> <<>>, dispatched |-> <<>>, text |-> <<>>, calls |-> 0 ]

\* String.prototype.trim on the text built: the lines of white space at its
\* two ends go.
RECURSIVE trimStart(_)
trimStart(lines) ==
    IF lines = <<>> \/ Head(lines).kind # "blank" THEN lines ELSE trimStart(Tail(lines))

RECURSIVE trimEnd(_)
trimEnd(lines) ==
    IF lines = <<>> \/ lines[Len(lines)].kind # "blank"
    THEN lines
    ELSE trimEnd(SubSeq(lines, 1, Len(lines) - 1))

\* The loop of parseAndExecute, 18-31, from line i on: acc holds
\* textResponse and action.
RECURSIVE parseLines(_, _, _)
parseLines(lines, i, acc) ==
    IF i > Len(lines)
    THEN acc
    ELSE LET line == lines[i]
         IN  IF line.kind \in {"directive", "object"}
             THEN parseLines(lines, i + 1, [acc EXCEPT !.action = i])
             ELSE parseLines(lines, i + 1, [acc EXCEPT !.textResponse = Append(@, line)])

\* parseAndExecute(aiResponse), agent.js 13-39: what it dispatches to
\* executeAction and the text it returns.
parseAndExecute(lines) ==
    LET acc == parseLines(lines, 1, [textResponse |-> <<>>, action |-> NoDirective])
    IN  [ input      |-> lines,
          dispatched |-> IF acc.action # NoDirective /\ lines[acc.action].kind = "directive"
                         THEN <<lines[acc.action]>>
                         ELSE <<>>,
          text       |-> trimEnd(trimStart(acc.textResponse)) ]

\* The widget parses a reply, part_009 248 and 296.
ParseAndExecute(maxLines) ==
    /\ \E lines \in OutputsOf(maxLines) :
        parsed' = [input |-> lines,
                   dispatched |-> parseAndExecute(lines).dispatched,
                   text |-> parseAndExecute(lines).text,
                   calls |-> 1]
    /\ UNCHANGED notParsed

\* ------------------------------------------------------- the widget shell

\* The timers closeSDK can have pending at one time.
TimerIds == 1..MaxCloseTimers

NoCloseTimer == 0

\* A free timer slot. A pending timer is "armed" until its 150 ms are over and
\* "due" from then on; entered records a pointer enter since it was armed.
FreeTimer == [st |-> "free", entered |-> FALSE]

\* The Store's initial state (part_004 2-6) and createUI's closure: where the
\* pointer is, whether an assistant bubble is in the message stack,
\* closeTimeout and the timers behind it, the 1 ms timer of a click outside,
\* and a voice start in flight.  last, hovered and fired record the last
\* event, its :hover input and the timer that fired.
UiInit ==
    [ isOpen       |-> FALSE,
      isVoiceMode  |-> FALSE,
      pointer      |-> "away",
      hasAi        |-> FALSE,
      closeTimeout |-> NoCloseTimer,
      timers       |-> [i \in TimerIds |-> FreeTimer],
      outside      |-> FALSE,
      starting     |-> FALSE,
      last         |-> "init",
      hovered      |-> FALSE,
      fired        |-> FreeTimer ]

\* clearTimeout(closeTimeout): no effect unless the handle names a pending
\* timer.
clearCloseTimeout(s) ==
    IF s.closeTimeout # NoCloseTimer
    THEN [s EXCEPT !.timers[s.closeTimeout] = FreeTimer]
    ELSE s

\* openSDK, part_009 98-107.
openSDK(s) ==
    IF s.isVoiceMode
    THEN s
    ELSE [clearCloseTimeout(s) EXCEPT !.isOpen = TRUE]

\* closeSDK, part_009 109-124: hovered is the result of the :hover query, id
\* the timer setTimeout creates.
closeSDK(s, hovered, id) ==
    IF s.isVoiceMode THEN s
    ELSE IF hovered THEN s
    ELSE IF s.hasAi THEN s
    ELSE [s EXCEPT !.closeTimeout = id,
                   !.timers[id] = [st |-> "armed", entered |-> FALSE]]

\* The callback of closeSDK's timer, part_009 121-123.
closeTimerFires(s, id) ==
    [s EXCEPT !.timers[id] = FreeTimer, !.isOpen = FALSE]

\* The voice button's click handler up to its await, part_009 269-276.
voiceButtonClick(s) ==
    IF ~s.isVoiceMode
    THEN [s EXCEPT !.isVoiceMode = TRUE, !.isOpen = TRUE, !.starting = TRUE]
    ELSE s

\* The catch of the voice button's handler, part_009 338-353: an error bubble
\* and voice mode off.
voiceStartFailed(s) ==
    [s EXCEPT !.hasAi = TRUE, !.isVoiceMode = FALSE, !.starting = FALSE]

\* exitVoiceMode, part_009 356-373.
exitVoiceMode(s) ==
    [s EXCEPT !.isVoiceMode = FALSE, !.isOpen = TRUE]

\* sendProactiveMessage, part_009 405-422.
sendProactiveMessage(s) ==
    [s EXCEPT !.isOpen = TRUE, !.hasAi = TRUE]

\* The callback of the 1 ms timer of a click outside, part_009 145-149.
outsideTimerFires(s) ==
    [s EXCEPT !.hasAi = FALSE, !.isOpen = FALSE, !.isVoiceMode = FALSE,
              !.outside = FALSE]

\* mouseenter on the notch or on the message stack, part_009 154-158.  The two
\* are siblings, so the pointer is over at most one of them.
PointerEnter ==
    /\ ui.pointer = "away"
    /\ \E target \in {"notch", "stack"} :
        LET seen == [ui EXCEPT !.timers = [i \in TimerIds |->
                        IF ui.timers[i].st = "free"
                        THEN FreeTimer
                        ELSE [ui.timers[i] EXCEPT !.entered = TRUE]]]
        IN  ui' = [openSDK(seen) EXCEPT !.pointer = target, !.last = "enter"]
    /\ UNCHANGED notUi

\* mouseleave on the element the pointer is over, part_009 155-158.  An
\* assistant bubble can be hovered only if there is one.
PointerLeave ==
    /\ ui.pointer # "away"
    /\ \E id \in TimerIds :
        /\ ui.timers[id].st = "free"
        /\ \A j \in TimerIds : ui.timers[j].st = "free" => id <= j
        /\ \E hovered \in (IF ui.hasAi THEN BOOLEAN ELSE {FALSE}) :
            ui' = [closeSDK(ui, hovered, id) EXCEPT !.pointer = "away",
                                                     !.last = "leave",
                                                     !.hovered = hovered]
    /\ UNCHANGED notUi

\* 150 ms pass: the armed timers become due.
CloseDelayElapses ==
    /\ \E i \in TimerIds : ui.timers[i].st = "armed"
    /\ ui' = [ui EXCEPT !.timers = [i \in TimerIds |->
                  IF ui.timers[i].st = "armed"
                  THEN [ui.timers[i] EXCEPT !.st = "due"]
                  ELSE ui.timers[i]],
                        !.last = "elapse"]
    /\ UNCHANGED notUi

\* A due close timer runs its callback.
CloseTimerFires ==
    /\ \E id \in TimerIds :
        /\ ui.timers[id].st = "due"
        /\ ui' = [closeTimerFires(ui, id) EXCEPT !.last = "closeTimer",
                                                 !.fired = ui.timers[id]]
    /\ UNCHANGED notUi

\* A click on the voice button, by pointer, touch or keyboard; one start is in
\* flight at a time.
VoiceButtonClick ==
    /\ ~ui.starting
    /\ ui' = [voiceButtonClick(ui) EXCEPT !.last = "voiceButton"]
    /\ UNCHANGED notUi

\* voiceHandler.start settles: it returns, or it throws into the catch.
VoiceStartSettles ==
    /\ ui.starting
    /\ \E ok \in BOOLEAN :
        ui' = [(IF ok THEN [ui EXCEPT !.starting = FALSE] ELSE voiceStartFailed(ui))
                  EXCEPT !.last = "voiceStart"]
    /\ UNCHANGED notUi

\* A click on the voice close button, which the voice interface shows.
ExitVoiceMode ==
    /\ ui.isVoiceMode
    /\ ui' = [exitVoiceMode(ui) EXCEPT !.last = "voiceClose"]
    /\ UNCHANGED notUi

\* An engagement trigger's notification reaches the widget, part_009 391-396.
ProactiveMessage ==
    /\ ui' = [sendProactiveMessage(ui) EXCEPT !.last = "proactive"]
    /\ UNCHANGED notUi

\* A click outside the widget, part_009 127-151: outside voice mode it arms
\* the 1 ms timer.
OutsideClick ==
    /\ ~ui.outside
    /\ ui' = [(IF ui.isVoiceMode THEN ui ELSE [ui EXCEPT !.outside = TRUE])
                  EXCEPT !.last = "outsideClick"]
    /\ UNCHANGED notUi

\* The 1 ms timer of a click outside fires.
OutsideTimer ==
    /\ ui.outside
    /\ ui' = [outsideTimerFires(ui) EXCEPT !.last = "outsideTimer"]
    /\ UNCHANGED notUi

\* ------------------------------------------------- Blitsum.init, the tracker

\* new BehaviorTracker(), behaviorTracker.js 7-26: nothing installed; inits
\* counts the calls of init.
TrackerInit ==
    [ initialized      |-> FALSE,
      timeOnPage       |-> 0,
      sessionStartTime |-> 0,
      intervals        |-> 0,    \* setInterval of startTimeTracking
      listeners        |-> 0,    \* sets of scroll, mouse and exit listeners
      observers        |-> 0,    \* MutationObserver of trackCTAInteractions
      subscribers      |-> 0,    \* behaviorTracker.addListener callbacks
      inits            |-> 0 ]

\* The page before the script runs: the document is loading, no listener on
\* DOMContentLoaded, no root, nothing installed by createUI or by
\* engagementTriggers.init.
PageInit ==
    [ readyState    |-> "loading",
      domListeners  |-> {},      \* the callbacks registered on DOMContentLoaded
      roots         |-> 0,       \* elements with id blitsum-root
      uiListeners   |-> 0,       \* sets of listeners createUI attached
      subscriptions |-> 0,       \* engagementTriggers.addListener callbacks
      engagement    |-> [initialized |-> FALSE, intervals |-> 0],
      tracker       |-> TrackerInit,
      now           |-> 0,       \* the clock, in seconds
      inits         |-> 0 ]

\* An init without the initialized flag.
trackerInit_again(k) ==
    [k EXCEPT !.intervals = @ + 1, !.listeners = @ + 1, !.observers = @ + 1,
              !.initialized = TRUE, !.inits = @ + 1]

\* BehaviorTracker.init(), behaviorTracker.js 31-54.
trackerInit(k) ==
    IF k.initialized
    THEN [k EXCEPT !.inits = @ + 1]
    ELSE [k EXCEPT !.intervals = @ + 1, !.listeners = @ + 1, !.observers = @ + 1,
                   !.initialized = TRUE, !.inits = @ + 1]

\* EngagementTriggers.init(), engagementTriggers.js 42-64.
engagementInit(s) ==
    IF s.engagement.initialized
    THEN s
    ELSE LET k == trackerInit(s.tracker)
         IN  [s EXCEPT !.tracker = [k EXCEPT !.subscribers = @ + 1],
                       !.engagement = [initialized |-> TRUE,
                                       intervals |-> s.engagement.intervals + 1]]

\* initializeEngagementTriggers, part_009 384-399.
initializeEngagementTriggers(s) ==
    LET s1 == engagementInit([s EXCEPT !.tracker = trackerInit(s.tracker)])
    IN  [s1 EXCEPT !.subscriptions = @ + 1]

\* A createUI that does not look for the root.
createUI_unguarded(s) ==
    initializeEngagementTriggers([s EXCEPT !.roots = @ + 1, !.uiListeners = @ + 1])

\* createUI(), part_009 20-379.
createUI(s) ==
    IF s.roots > 0
    THEN s
    ELSE initializeEngagementTriggers([s EXCEPT !.roots = @ + 1,
                                                !.uiListeners = @ + 1])

\* window.Blitsum.init(config), part_005 5-13: addEventListener keeps one
\* entry for one callback.
blitsumInit(s) ==
    LET s1 == [s EXCEPT !.inits = @ + 1]
    IN  IF s1.readyState \in {"complete", "interactive"}
        THEN createUI(s1)
        ELSE [s1 EXCEPT !.domListeners = @ \cup {"createUI"}]

\* The document is parsed: readyState interactive, then DOMContentLoaded
\* runs its listeners.
domContentLoaded(s) ==
    LET s1 == [s EXCEPT !.readyState = "interactive"]
    IN  IF "createUI" \in s1.domListeners THEN createUI(s1) ELSE s1

\* The callback of startTimeTracking's interval, behaviorTracker.js 60-62;
\* the clock counts seconds.
timeTrackingFires(k, now) ==
    [k EXCEPT !.timeOnPage = now - k.sessionStartTime]

\* The host page calls Blitsum.init.
BlitsumInit(maxInits) ==
    /\ page.inits < maxInits
    /\ page' = blitsumInit(page)
    /\ UNCHANGED notPage

DomContentLoaded ==
    /\ page.readyState = "loading"
    /\ page' = domContentLoaded(page)
    /\ UNCHANGED notPage

\* The load event: readyState complete.
PageLoaded ==
    /\ page.readyState = "interactive"
    /\ page' = [page EXCEPT !.readyState = "complete"]
    /\ UNCHANGED notPage

\* A second passes.
Second(maxSeconds) ==
    /\ page.now < maxSeconds
    /\ page' = [page EXCEPT !.now = @ + 1]
    /\ UNCHANGED notPage

\* One of the tracker's intervals fires.
TimeTracking ==
    /\ page.tracker.intervals > 0
    /\ page' = [page EXCEPT !.tracker = timeTrackingFires(@, page.now)]
    /\ UNCHANGED notPage

\* --------------------------------------------- the recommended plan (sales)

CompanySizes == {"unknown", "startup", "smb", "enterprise"}
Budgets == {"unknown", "high", "low", "medium"}
\* The techniques whose statement names the recommended plan, and the two
\* whose statement does not, closing.js 90-99.
PlanTechniques == {"assumptive", "urgency", "trial", "direct", "takeaway", "puppy_dog"}
ClosingTechniques == PlanTechniques \cup {"alternative", "summary"}

\* A pricing section: for each plan in page order, whether it is marked
\* popular.
Pricings(maxPricing) == UNION {[1..n -> BOOLEAN] : n \in 0..maxPricing}

\* No plan: null.
NoPlan0 == 0

\* new UserProfileBuilder(), part_008 11-24, an empty pricing section, and
\* nothing recommended yet.
SalesInit ==
    [ userProfile |-> [companySize |-> "unknown", budget |-> "unknown"],
      pricing     |-> <<>>,        \* pageContext.pricing
      statement   |-> [made |-> FALSE, plan |-> NoPlan0, named |-> FALSE],
      action      |-> [made |-> FALSE, plan |-> NoPlan0] ]

\* detectCompanySize, part_008 109-126: the first size, in the order of the
\* table, one of whose keywords the messages hold.
detectCompanySize(signals) ==
    IF "startup" \in signals THEN "startup"
    ELSE IF "smb" \in signals THEN "smb"
    ELSE IF "enterprise" \in signals THEN "enterprise"
    ELSE "unknown"

\* detectBudget, part_008 176-190.
detectBudget(signals) ==
    IF "high" \in signals THEN "high"
    ELSE IF "low" \in signals THEN "low"
    ELSE IF "medium" \in signals THEN "medium"
    ELSE "unknown"

\* plans.find(p => p.popular): the index of the first popular plan, or 0.
popularPlan(plans) ==
    IF \E i \in 1..Len(plans) : plans[i]
    THEN CHOOSE i \in 1..Len(plans) : plans[i] /\ \A j \in 1..(i - 1) : ~plans[j]
    ELSE NoPlan0

\* plans[Math.floor(plans.length / 2)], as an index from 1.
middlePlan(plans) == (Len(plans) \div 2) + 1

\* ClosingStatements.getRecommendedPlan, closing.js 200-220.
closingRecommendedPlan(plans, userProfile) ==
    IF Len(plans) = 0 THEN NoPlan0
    ELSE IF userProfile.companySize = "enterprise" THEN Len(plans)
    ELSE IF userProfile.companySize = "startup" THEN 1
    ELSE IF popularPlan(plans) # NoPlan0 THEN popularPlan(plans)
    ELSE middlePlan(plans)

\* PersonalizationRules.getRecommendedPlan, part_008 521-547.
rulesRecommendedPlan(userProfile, plans) ==
    IF Len(plans) = 0 THEN NoPlan0
    ELSE IF userProfile.companySize = "startup" THEN 1
    ELSE IF userProfile.companySize = "enterprise" THEN Len(plans)
    ELSE IF userProfile.budget = "high" THEN Len(plans)
    ELSE IF userProfile.budget = "low" THEN 1
    ELSE IF popularPlan(plans) # NoPlan0 THEN popularPlan(plans)
    ELSE middlePlan(plans)

\* ClosingStatements.generateStatement, closing.js 85-101.
generateStatement(s, technique) ==
    LET recommendedPlan == closingRecommendedPlan(s.pricing, s.userProfile)
    IN  [s EXCEPT !.statement =
            [made  |-> TRUE,
             plan  |-> recommendedPlan,
             named |-> technique \in PlanTechniques /\ recommendedPlan # NoPlan0]]

\* UserProfileBuilder.build, part_008 32-65, over messages that hold the
\* keywords of the given sizes and budgets.
BuildProfile ==
    /\ \E sizes \in SUBSET (CompanySizes \ {"unknown"}),
          budgets \in SUBSET (Budgets \ {"unknown"}) :
        sales' = [sales EXCEPT !.userProfile =
                    [companySize |-> detectCompanySize(sizes),
                     budget      |-> detectBudget(budgets)]]
    /\ UNCHANGED notSales

\* The page context is extracted: its pricing section.
ExtractPricing(maxPricing) ==
    /\ \E plans \in Pricings(maxPricing) :
        /\ plans # sales.pricing
        /\ sales' = [sales EXCEPT !.pricing = plans]
    /\ UNCHANGED notSales

\* ClosingStatements.getBestClose, closing.js 29-50, with the technique that
\* selectTechnique picks.
GetBestClose ==
    /\ \E technique \in ClosingTechniques :
        sales' = generateStatement(sales, technique)
    /\ UNCHANGED notSales

\* The closing actions of the sales agent, murf.js 501-521.
RecommendActions ==
    /\ sales' = [sales EXCEPT !.action =
                    [made |-> TRUE,
                     plan |-> rulesRecommendedPlan(sales.userProfile, sales.pricing)]]
    /\ UNCHANGED notSales

\* ------------------------------------- the playback path: decode, schedule

\* Time is counted in sample times, at a sample rate that makes the 0.05 s of
\* murf.js 193 two sample times.
JitterBuffer == 2
\* The length of a WAV header, murf.js 251.
WavHeader == 44

\* An audio chunk after atob: whether it begins with the bytes "RIFF", and
\* its length in bytes, a few bytes or about a header's length.
AudioChunks(maxBytes) ==
    {c \in [riff : BOOLEAN, bytes : 0..maxBytes] :
        /\ c.riff => c.bytes >= 4
        /\ c.bytes <= 4 \/ c.bytes >= WavHeader - 1}

NoChunk == [at |-> 0, stripped |-> 0, samples |-> 0, start |-> 0,
            nextPlayTime |-> 0, latched |-> FALSE, first |-> FALSE]

\* The constructor's playback fields, murf.js 11-14 and 25, with an
\* AudioContext whose clock reads 0.
AudioInit ==
    [ now              |-> 0,      \* audioContext.currentTime
      nextPlayTime     |-> 0,
      wavHeaderSet     |-> FALSE,
      hasReceivedFinal |-> FALSE,
      activeSources    |-> {},     \* the end times of the sources scheduled
      chunks           |-> 0,      \* audio chunks received so far
      inStream         |-> 0,      \* of which since the last flush
      utterance        |-> "none", \* of the last speak call: playing, flushed, done
      last             |-> NoChunk ]  \* the last chunk: what was done with it

\* decodeChunk, murf.js 239-276: the bytes skipped and the samples decoded,
\* or no samples for null.
decodeChunk(c) ==
    LET offset == IF c.riff THEN WavHeader ELSE 0
        length == c.bytes - offset
    IN  [offset  |-> offset,
         samples |-> IF length <= 0 THEN 0 ELSE length \div 2,
         latch   |-> c.riff]

\* The start time when every chunk waits for the jitter buffer.
startTime_jitter(nextPlayTime, now) == now + JitterBuffer

\* murf.js 190-195: the time the source is started at.
startTime(nextPlayTime, now) ==
    IF nextPlayTime < now THEN now + JitterBuffer ELSE nextPlayTime

\* scheduleAudioChunk, murf.js 174-209, with its clock and the decoded bytes.
scheduleChunk(s, c) ==
    LET decoded == decodeChunk(c)
        s1      == [s EXCEPT !.wavHeaderSet = @ \/ decoded.latch,
                             !.chunks = @ + 1,
                             !.inStream = @ + 1]
        startAt == startTime(s.nextPlayTime, s.now)
        done    == [at |-> s.now, stripped |-> decoded.offset,
                    samples |-> decoded.samples, start |-> startAt,
                    nextPlayTime |-> s.nextPlayTime,
                    latched |-> s.wavHeaderSet, first |-> s.inStream = 0]
    IN  IF decoded.samples = 0
        THEN [s1 EXCEPT !.last = [done EXCEPT !.start = 0]]
        ELSE [s1 EXCEPT !.nextPlayTime = startAt + decoded.samples,
                        !.activeSources = @ \cup {startAt + decoded.samples},
                        !.last = done]

\* checkPlaybackCompletion, murf.js 214-229, on the playback fields.
playbackCompletion(s) ==
    IF s.hasReceivedFinal /\ s.activeSources = {}
    THEN [s EXCEPT !.wavHeaderSet = FALSE,
                   !.utterance = IF @ = "playing" THEN "done" ELSE @]
    ELSE s

\* flushBuffer, murf.js 278-286, on the playback fields.
flushPlayback(s) ==
    [s EXCEPT !.activeSources = {},
              !.nextPlayTime = s.now,
              !.wavHeaderSet = FALSE,
              !.inStream = 0]

\* socket.onmessage, murf.js 62-76, for a frame that carries an audio chunk.
AudioFrame(maxAudioChunks, maxBytes, maxPlayTime) ==
    /\ playback.chunks < maxAudioChunks
    /\ \E c \in AudioChunks(maxBytes), isFinalAudio \in BOOLEAN :
        LET s1 == scheduleChunk(playback, c)
            s2 == IF isFinalAudio
                  THEN playbackCompletion([s1 EXCEPT !.hasReceivedFinal = TRUE])
                  ELSE s1
        IN  /\ s1.nextPlayTime <= maxPlayTime
            /\ playback' = s2
    /\ UNCHANGED notAudio

\* source.onended, murf.js 201-204: a source ends when its buffer is played.
PlaybackEnded ==
    /\ \E e \in playback.activeSources :
        /\ e <= playback.now
        /\ playback' = playbackCompletion([playback EXCEPT !.activeSources = @ \ {e}])
    /\ UNCHANGED notAudio

\* speak(text), murf.js 121-123: the reset for a new utterance.
NewUtterance ==
    /\ playback' = [flushPlayback(playback) EXCEPT !.hasReceivedFinal = FALSE,
                                                   !.utterance = "playing"]
    /\ UNCHANGED notAudio

\* interrupt(), agent.js 319-329: flushBuffer alone.
FlushPlayback ==
    /\ playback' = [flushPlayback(playback) EXCEPT
                        !.utterance = IF @ = "playing" THEN "flushed" ELSE @]
    /\ UNCHANGED notAudio

\* The audio clock advances.
AudioClock(maxAudioTime) ==
    /\ playback.now < maxAudioTime
    /\ playback' = [playback EXCEPT !.now = @ + 1]
    /\ UNCHANGED notAudio

\* ---------------------------------------------------------- specifications

Init ==
    /\ murf = MurfInit
    /\ server = ServerInit
    /\ env = EnvInit
    /\ vh = VoiceInit
    /\ api = ApiInit
    /\ cache = CacheInit
    /\ fx = FxInit
    /\ nav = NavInit
    /\ trig = TrigInit
    /\ flow = FlowInit
    /\ parsed = ParsedInit
    /\ ui = UiInit
    /\ page = PageInit
    /\ sales = SalesInit
    /\ playback = AudioInit

MurfNext(maxSpeaks, maxChunks, maxCloses) ==
    \/ Speak(maxSpeaks)
    \/ FlushBuffer
    \/ Disconnect(maxCloses)
    \/ Connect
    \/ SocketOpen
    \/ SocketFail(maxCloses)
    \/ SocketClose(maxCloses)
    \/ OrphanClose
    \/ ReconnectTimer
    \/ Frame(maxChunks)
    \/ SourceEnded

Next == MurfNext(MaxSpeaks, MaxChunks, MaxCloses)
Spec == Init /\ [][Next]_vars

NextReconnect == MurfNext(MaxSpeaksR, MaxChunksR, MaxClosesR)
SpecReconnect == Init /\ [][NextReconnect]_vars

VoiceNext(maxFinals, maxChunks, maxErrors, errorFrames) ==
    \/ VStart
    \/ VStop
    \/ VInterrupt
    \/ RecStarted
    \/ RecResult(maxFinals)
    \/ RecEnd
    \/ RecError(maxErrors, {"no-speech", "aborted", "network"})
    \/ SilenceTimer
    \/ Reply
    \/ ResumeTimer
    \/ RestartTimer
    \/ StatusTimer
    \/ VSocketOpen
    \/ VOrphanClose
    \/ VReconnectTimer
    \/ VFrame(maxChunks, errorFrames)
    \/ VSourceEnded

NextVoice == VoiceNext(MaxFinals, MaxChunksV, MaxErrors, BOOLEAN)
SpecVoice == Init /\ [][NextVoice]_vars

ApiNext(maxCalls, maxInFlight) ==
    \/ SendMessage(maxCalls, maxInFlight)
    \/ FetchSettles
    \/ BodySettles

NextApi == ApiNext(MaxCalls, MaxInFlight)
SpecApi == Init /\ [][NextApi]_vars

NextApiTurns == ApiNext(MaxCallsT, MaxInFlightT)
SpecApiTurns == Init /\ [][NextApiTurns]_vars

\* The cache and its callers, with the clock.
NextCache ==
    \/ CacheSet(Keys, {1, 2})
    \/ CacheGet(MaxGets)
    \/ InvalidateCache
    \/ CleanupInterval
    \/ Tick(MaxTime)
SpecCache == Init /\ [][NextCache]_vars

\* The mutation observer and the cache it flushes.
NextDom ==
    \/ CacheSet({"k1"}, {1})
    \/ Mutate(MaxBatchLen, MaxBatches)
    \/ DebounceFires
SpecDom == Init /\ [][NextDom]_vars

\* The visual effects on one element.
NextFx ==
    \/ HighlightElement(MaxEffects)
    \/ CompareElements(MaxEffects)
    \/ FocusElement(MaxEffects)
    \/ FxTimer
SpecFx == Init /\ [][NextFx]_vars

\* The navigation agent executing plans, calls overlapping.
NextNav ==
    \/ ExecuteActionPlan(MaxPlans, MaxPlanLen)
    \/ ActionSettles
    \/ DelayOver
SpecNav == Init /\ [][NextNav]_vars

\* The navigation agent from the utterance on.
NextIntent ==
    \/ UpdateContext
    \/ Navigate(MaxNavigates, MaxPlans, MaxNames)
    \/ ActionSettles
    \/ DelayOver
    \/ NavigateResumes
SpecIntent == Init /\ [][NextIntent]_vars

\* The host page: init calls, the document's loading, the tracker's clock.
NextPage ==
    \/ BlitsumInit(MaxInits)
    \/ DomContentLoaded
    \/ PageLoaded
    \/ Second(MaxSeconds)
    \/ TimeTracking
SpecPage == Init /\ [][NextPage]_vars

\* The widget's chat input in front of the navigation agent, on a page whose
\* context is never updated.
NextRoute ==
    \/ ChatMessage(MaxRoutes, MaxPlans, MaxNames)
    \/ ActionSettles
    \/ DelayOver
    \/ NavigateResumes
SpecRoute == Init /\ [][NextRoute]_vars

\* The playback path of the client under the frames of the server.
NextAudio ==
    \/ AudioFrame(MaxAudioChunks, MaxBytes, MaxPlayTime)
    \/ PlaybackEnded
    \/ NewUtterance
    \/ FlushPlayback
    \/ AudioClock(MaxAudioTime)
SpecAudio == Init /\ [][NextAudio]_vars

\* Calls of navigate on a page whose context is never updated: the entities
\* are the common plan names.
NextPlan ==
    \/ Navigate(MaxRoutes, MaxPlans, MaxPlanNames)
    \/ ActionSettles
    \/ DelayOver
    \/ NavigateResumes
SpecPlan == Init /\ [][NextPlan]_vars

\* The sales layer recommending a plan.
NextSales ==
    \/ BuildProfile
    \/ ExtractPricing(MaxPricing)
    \/ GetBestClose
    \/ RecommendActions
SpecSales == Init /\ [][NextSales]_vars

\* The engagement triggers over the rule table.
NextTrig ==
    \/ CheckTriggers(MaxCycles)
    \/ FireTimer
    \/ ClockTick(MaxClock)
SpecTrig == Init /\ [][NextTrig]_vars

\* The conversation flow over the user's utterances.
NextFlow ==
    \/ Utterance(MaxUtterances)
SpecFlow == Init /\ [][NextFlow]_vars

\* The stages of a conversation whose flow manager is reset on the way.
NextStages ==
    \/ Utterance(MaxUtterances)
    \/ ResetFlow(MaxResets)
SpecStages == Init /\ [][NextStages]_vars

\* The parser of the assistant's output.
NextParse ==
    \/ ParseAndExecute(MaxLines)
SpecParse == Init /\ [][NextParse]_vars

\* Voice runs in which every frame of the TTS server reports an error.
NextErrors == VoiceNext(MaxFinals, MaxChunksV, MaxErrors, {TRUE})
SpecErrors == Init /\ [][NextErrors]_vars

\* Voice runs in which nobody speaks: the recognizer delivers no result, only
\* no-speech and aborted errors and end events; the TTS server may drop the
\* idle connection.
NextQuiet ==
    \/ SocketClose(MaxClosesR)
    \/ VStart
    \/ VStop
    \/ RecStarted
    \/ RecEnd
    \/ RecError(MaxErrors, {"no-speech", "aborted"})
    \/ VSocketOpen
    \/ VOrphanClose
    \/ VReconnectTimer
SpecQuiet == Init /\ [][NextQuiet]_vars

\* ------------------------------------ the widget and its voice handler

\* What the widget's voice toggle leaves alone.
notShell == <<api, cache, fx, nav, trig, flow, parsed, page, sales, playback>>

\* start() resumed in a browser without SpeechRecognition or on an insecure
\* origin, agent.js 137-149: it throws; the connection it awaited stays as it
\* is and no recognizer is created.
startThrows(st) ==
    [st EXCEPT !.v.startPc = "failed"]

\* The voice button's click handler outside voice mode, part_009 269-286: the
\* store is set, a VoiceHandler is created and its start() runs up to its
\* first await.  One handler is created in a run.
ShellVoiceClick ==
    /\ ~ui.starting
    /\ ~ui.isVoiceMode
    /\ vh.startPc = "new"
    /\ ~vh.stopped
    /\ ui' = [voiceButtonClick(ui) EXCEPT !.last = "voiceButton"]
    /\ Becomes(start(State))
    /\ UNCHANGED env
    /\ UNCHANGED notShell

\* The TTS socket opens and start() goes on: supported says whether the
\* browser passes the checks of agent.js 137-149.
ShellSocketOpen ==
    /\ murf.socket = "connecting"
    /\ \E supported \in BOOLEAN :
        LET opened == [State EXCEPT !.m = onopen(murf)]
        IN  Becomes(IF supported \/ murf.connWaiter.kind # "vhStart"
                    THEN connectSettled(opened, murf.connWaiter, TRUE)
                    ELSE startThrows(opened))
    /\ env' = [env EXCEPT !.autoAttempts = 0]
    /\ UNCHANGED ui
    /\ UNCHANGED notShell

\* The click handler resumed after `await voiceHandler.start(...)`,
\* part_009 286-353: nothing more when start returned, the catch when it
\* threw.
ShellStartSettles ==
    /\ ui.starting
    /\ vh.startPc \in {"done", "failed"}
    /\ ui' = [(IF vh.startPc = "done"
               THEN [ui EXCEPT !.starting = FALSE]
               ELSE voiceStartFailed(ui)) EXCEPT !.last = "voiceStart"]
    /\ UNCHANGED sessionVars
    /\ UNCHANGED notShell

\* A click on the voice close button, part_009 356-373: the handler, if there
\* is one, is stopped and dropped.
ShellExit ==
    /\ ui.isVoiceMode
    /\ ui' = [exitVoiceMode(ui) EXCEPT !.last = "voiceClose"]
    /\ IF vh.startPc # "new" /\ ~vh.stopped
       THEN /\ BecomesClosed(stop(State))
            /\ env' = [env EXCEPT !.closes = @ + (IF murf.socket \in {"open", "connecting"} THEN 1 ELSE 0)]
       ELSE UNCHANGED <<murf, server, env, vh>>
    /\ UNCHANGED notShell

\* The widget shell: pointer, timers, voice toggle, messages, clicks outside.
NextUi ==
    \/ PointerEnter
    \/ PointerLeave
    \/ CloseDelayElapses
    \/ CloseTimerFires
    \/ VoiceButtonClick
    \/ VoiceStartSettles
    \/ ExitVoiceMode
    \/ ProactiveMessage
    \/ OutsideClick
    \/ OutsideTimer
SpecUi == Init /\ [][NextUi]_vars

\* The widget's voice toggle with the handler it creates, and the clicks
\* outside the widget.
NextShell ==
    \/ ShellVoiceClick
    \/ ShellSocketOpen
    \/ ShellStartSettles
    \/ ShellExit
    \/ RecStarted
    \/ VOrphanClose
    \/ VReconnectTimer
    \/ PointerEnter
    \/ PointerLeave
    \/ ProactiveMessage
    \/ OutsideClick
    \/ OutsideTimer
SpecShell == Init /\ [][NextShell]_vars

\* Voice runs in which the TTS server reports no error frame.
NextTurns == VoiceNext(MaxFinals, MaxChunksV, MaxErrors, {FALSE})
SpecTurns == Init /\ [][NextTurns]_vars

\* Voice runs in which the user goes on talking: two final results.
NextOverlap == VoiceNext(MaxFinalsO, MaxChunksV, MaxErrors, {FALSE})
SpecOverlap == Init /\ [][NextOverlap]_vars

\* ----------------------------------------------------- playback completion

Pending(p) == murf.promise[p] \in Unsettled
BothSignals == murf.hasReceivedFinal /\ murf.activeSources = {}

\* C1: the promise of speak(text) resolves if and only if both completion
\* signals hold (hasReceivedFinal, and no active source): a step that resolves
\* it ends with both holding, and no step leaves a registered promise pending
\* with both holding.
C1_ResolvesIffBothSignals ==
    [][\A p \in Speaks :
          /\ (murf.promise[p] # "resolved" /\ murf.promise'[p] = "resolved")
                => (murf.hasReceivedFinal' /\ murf.activeSources' = {})
          /\ murf.promise'[p] = "pending"
                => ~(murf.hasReceivedFinal' /\ murf.activeSources' = {})]_murfVars

\* C2: speak strictly serializes utterances: a call made while an earlier
\* promise is pending rejects that promise with "Interrupted by new speech",
\* empties the set of active sources and sends the end message of the prior
\* context before the new context's voice_config and text; and at most one
\* speak promise is pending at any time.
C2_SpeakSerializes ==
    [][/\ \A p, q \in Speaks :
            (murf.promise[p] = "none" /\ murf.promise'[p] # "none" /\ Pending(q))
              => /\ murf.promise'[q] = "rejInterrupted"
                 /\ murf.activeSources' = {}
                 /\ murf.wire' = murf.wire \o <<(<<"end", murf.currentContextId>>),
                                                (<<"voice_config", p>>),
                                                (<<"text", p>>)>>
       /\ Cardinality({p \in Speaks : murf.promise'[p] \in Unsettled}) <= 1]_murfVars

\* C3: every speak promise is settled at most once: under any interleaving
\* of frames, ended events, new speak calls, flushBuffer and disconnect, the
\* resolve and reject functions of one promise are called at most once in
\* all, so an interrupted turn is never resolved later and a resolved turn
\* never rejected later.
C3_SettledAtMostOnce ==
    \A p \in Speaks :
        /\ murf.settleCalls[p] <= 1
        /\ murf.promise[p] \in {"resolved", "rejInterrupted", "rejDisconnected", "rejError"}
              => murf.settleCalls[p] = 1

\* C3's case: a turn rejected as interrupted, after which a later final frame
\* and ended event resolved the turn that interrupted it.
C3_Witness ==
    /\ murf.promise[1] = "rejInterrupted"
    /\ murf.promise[2] = "resolved"
    /\ murf.stoppedSources = {}

\* ------------------------------------------------------------- reconnect

\* Terminal loss: the socket is closed, the reconnect attempts are used up
\* and no reconnect is scheduled or under way.
TerminalLoss ==
    /\ murf.socket = "closed"
    /\ murf.reconnectAttempts = maxReconnectAttempts
    /\ murf.reconnectTimers = 0
    /\ murf.orphans = <<>>

\* C7: on terminal loss no speak promise stays pending: the promise that was
\* pending when the socket closed has been rejected with "Disconnected".
C7_TerminalLossRejects ==
    TerminalLoss => \A p \in Speaks : murf.promise[p] # "pending"

\* C8: reconnects are bounded: the attempts counted, and the connections
\* attempted by the reconnect timer since the last successful open, never
\* exceed 3.
C8_ReconnectsBounded ==
    /\ murf.reconnectAttempts <= maxReconnectAttempts
    /\ env.autoAttempts <= maxReconnectAttempts

\* ----------------------------------------------------------- voice session

\* A recognition result is handled in this step: only handleSpeechResult
\* reports the status "speaking", and only a final result adds to heard.
ResultStep ==
    \/ vh.status # "speaking" /\ vh.status' = "speaking"
    \/ Len(vh.heard') > Len(vh.heard)

\* C4: barge-in: a recognition result that arrives while the AI is speaking
\* with a speak promise pending rejects that promise with "Interrupted by new
\* speech" and so ends the speaking state of VoiceHandler.speak.
C4_BargeInRejects ==
    [][\A p \in Speaks :
          (vh.isSpeaking /\ vh.status = "ai-speaking"
             /\ murf.promise[p] = "pending" /\ ResultStep)
            => /\ murf.promise'[p] = "rejInterrupted"
               /\ ~vh.isSpeaking']_vars

\* C5: walkie-talkie discipline: while the AI is speaking nothing starts the
\* speech recognizer; the recognizer is neither starting nor running.
C5_WalkieTalkie ==
    vh.isSpeaking => vh.recState \notin {"starting", "running"}

Words(segs) == SelectSeq(segs, LAMBDA s : s.word)

RECURSIVE Flatten(_)
Flatten(msgs) ==
    IF msgs = <<>> THEN <<>> ELSE Head(msgs) \o Flatten(Tail(msgs))

C9_HistoryCapped ==
    Len(api.conversationHistory) <= MAX_HISTORY_LENGTH * 2

\* C10: from the moment call c is made its user entry has been appended
\* exactly once; its assistant entry is appended at most once, at the end of
\* the history, in the step in which the response of the call resolves with
\* the reply, and so after the user entry; under any interleaving of calls.
C10_AppendsOncePerTurn ==
    [][\A c \in Calls :
          /\ api.userPushes'[c] = (IF api.pc'[c] = "none" THEN 0 ELSE 1)
          /\ api.assistantPushes'[c] = (IF api.pc'[c] = "done" THEN 1 ELSE 0)
          /\ api.assistantPushes'[c] # api.assistantPushes[c]
                => /\ api.pc[c] = "awaitBody"
                   /\ api.userPushes[c] = 1
                   /\ api.conversationHistory' =
                          Append(api.conversationHistory, Entry("assistant", c))]_api

\* C10's case: two overlapping calls, the second answered before the first.
C10_Witness ==
    /\ api.pc[1] = "done"
    /\ api.pc[2] = "done"
    /\ api.conversationHistory = <<Entry("user", 1), Entry("user", 2),
                                   Entry("assistant", 2), Entry("assistant", 1)>>

\* -------------------------------------------------------------------- cache

\* C11: once a significant mutation (a childList change, or a characterData
\* change of text longer than 10, outside the SDK's root) was observed, the
\* debounce timer that fires with no further mutation flushes the whole
\* cache, whatever other batches arrived in the debounce window.
C11_SignificantMutationFlushes ==
    [][(cache.debounce # NoBatch /\ cache.debounce' = NoBatch /\ cache.significantSeen)
          => \A k \in Keys : cache.cache'[k] = Absent]_cache

\* C12: get(k) returns the value last set for k while its age is within its
\* TTL; a get after the TTL has expired returns null, never the stale value,
\* and removes the entry; a key not set, or deleted since, gives null.
C12_GetWithinTtl ==
    [][cache.gets' # cache.gets
          => LET k == cache.lastGet'.key
                 w == cache.written[k]
                 r == cache.lastGet'.result
             IN  IF ~w.isSet
                 THEN r = Null
                 ELSE IF cache.now - w.created <= w.ttl
                      THEN r = w.value /\ cache.cache'[k] = w.value
                      ELSE /\ r = Null
                           /\ cache.cache'[k] = Absent
                           /\ cache.timestamps'[k] = NoTimestamp]_cache

\* C12's case: a get of a key whose entry had outlived its TTL returned null
\* and removed the entry.
C12_Witness ==
    /\ cache.gets > 0
    /\ cache.lastGet.key = "k1"
    /\ cache.lastGet.result = Null
    /\ cache.written["k1"].isSet
    /\ cache.now - cache.written["k1"].created > cache.written["k1"].ttl
    /\ cache.cache["k1"] = Absent

\* ------------------------------------------------------------------ effects

\* C13: once every timer of the effects has fired, every inline style
\* property an effect changed has the value it had before the first effect.
C13_StylesRestored ==
    fx.timers = {} => \A p \in Props : fx.style[p] = "orig"

\* --------------------------------------------------------------- navigation

\* C14: executeActionPlan runs the actions of a plan in plan order, each
\* started only when the one before has settled; the results hold one entry
\* per action settled, in plan order, a thrown action as a failed entry; and
\* the call ends only with one entry for every action of the plan.
C14_PlanInOrder ==
    \A c \in Plans :
        LET r == nav.run[c]
        IN  /\ Len(r.results) <= Len(r.plan)
            /\ \A j \in 1..Len(r.results) :
                  /\ r.results[j].of = j
                  /\ r.results[j].success = (r.plan[j] = "succeeds")
                  /\ r.results[j].caught = (r.plan[j] = "throws")
            /\ r.started = Len(r.results) + (IF r.pc = "awaitAction" THEN 1 ELSE 0)
            /\ r.pc = "done" => Len(r.results) = Len(r.plan)

\* C14's case: a plan whose first action threw and whose second succeeded
\* has run to its end.
C14_Witness ==
    /\ nav.run[1].pc = "done"
    /\ nav.run[1].plan = <<"throws", "succeeds">>
    /\ Len(nav.run[1].results) = 2

\* ----------------------------------------------------------------- triggers

\* The rules a cycle may fire: unfired or past their cooldown, and their
\* condition holds for the behavior of the cycle.
Eligible(s, cond) ==
    {id \in RuleIds :
        /\ id \notin s.firedTriggers \/ s.now - s.lastFired[id] >= Rule(id).cooldown
        /\ cond[id] = "true"}

\* C15: a checkTriggers cycle arms at most one delayed fire, for a rule of
\* the best priority among those unfired or past cooldown whose condition
\* holds, and it arms one whenever there is such a rule, also when the
\* condition of a rule before it throws.
C15_OneTriggerPerCycle ==
    [][trig.cycles' # trig.cycles
          => LET new == trig.pending' \ trig.pending
                 eligible == Eligible(trig, trig.conditions')
             IN  /\ Cardinality(new) <= 1
                 /\ trig.scheduled' = trig.scheduled + Cardinality(new)
                 /\ (new = {}) = (eligible = {})
                 /\ \A tm \in new :
                       /\ tm.id \in eligible
                       /\ \A e \in eligible :
                             priorityOrder(Rule(tm.id).priority)
                                <= priorityOrder(Rule(e).priority)
                       /\ tm.id \in trig.firedTriggers'
                       /\ trig.lastFired'[tm.id] = trig.now]_trig

\* C15's case: in the last cycle the condition of the critical rule threw
\* and the high rule was armed.
C15_Witness ==
    /\ trig.cycles > 0
    /\ trig.conditions["pricing"] = "throws"
    /\ trig.conditions["exit"] = "true"
    /\ \E tm \in trig.pending : tm.id = "idle" /\ tm.n = trig.scheduled
    /\ trig.lastFired["idle"] = trig.now

\* C16: two consecutive notifications of the listeners for one rule, caused
\* by checkTriggers, are at least the rule's cooldown apart.
C16_CooldownBetweenFires ==
    \A id \in RuleIds :
        trig.notifiedBefore[id] # -1
            => trig.notified[id] - trig.notifiedBefore[id] >= Rule(id).cooldown

\* ------------------------------------------------------- conversation flow

\* C17: the flow never auto-advances out of objection or closing: in those
\* stages shouldAdvanceStage is false, and an utterance without a stage cue
\* leaves currentStage unchanged.
C17_NoAutoAdvance ==
    [][/\ flow.currentStage' \in {"objection", "closing"}
            => ~shouldAdvanceStage(flow', flow.userMessages')
       /\ (/\ flow.userMessages' # flow.userMessages
           /\ flow.currentStage \in {"objection", "closing"}
           /\ flow.lastMessage' = {})
            => flow.currentStage' = flow.currentStage]_flow

\* ------------------------------------------------------------------- parser

\* C18: parseAndExecute dispatches every line that is a JSON object with an
\* action, in order of appearance, and returns the other lines in order
\* (trimmed at the two ends), none of them a JSON object line.
C18_EveryDirectiveDispatched ==
    parsed.calls > 0
        => /\ parsed.dispatched = SelectSeq(parsed.input, LAMBDA l : l.kind = "directive")
           /\ parsed.text = trimEnd(trimStart(SelectSeq(parsed.input,
                                LAMBDA l : l.kind \in {"text", "blank", "malformed"})))

\* -------------------------------------------------------------------- shell

\* A step of the shell made by the event named.
UiStep(event) == ui' # ui /\ ui'.last = event

\* C19: in voice mode no pointer enter or leave and no close timer changes
\* isOpen; outside voice mode a close timer closes the shell only if no
\* pointer enter came since the leave that armed it, a leave closes nothing
\* at once, and a leave over a hovered assistant bubble arms no timer.
C19_CloseDebounce ==
    [][/\ (ui.isVoiceMode /\ (UiStep("enter") \/ UiStep("leave") \/ UiStep("closeTimer")))
            => ui'.isOpen = ui.isOpen
       /\ (~ui.isVoiceMode /\ UiStep("closeTimer") /\ ui.isOpen)
            => ~ui'.fired.entered
       /\ UiStep("leave") => ui'.isOpen = ui.isOpen
       /\ (UiStep("leave") /\ ui'.hovered) => ui'.timers = ui.timers]_ui

\* ----------------------------------------------------------- leaving voice

\* The step in which stop() runs.
StopStep == ~vh.stopped /\ vh'.stopped

\* C20: stop() leaves the recognizer stopped and dropped, the audio context
\* released, the TTS socket closed and dropped, every speak promise that was
\* pending rejected with 'Disconnected', and the status idle.
C20_StopDestroysSession ==
    [][StopStep
        => /\ ~vh'.recognition
           /\ vh'.recState \in {"idle", "stopping"}
           /\ murf'.audioContext \in {"null", "closed"}
           /\ murf'.socket = "null"
           /\ \A p \in Speaks :
                murf.promise[p] = "pending" => murf'.promise[p] = "rejDisconnected"
           /\ vh'.status = "idle"]_<<murf, vh>>

\* --------------------------------------------------------------- TTS errors

EndStep ==
    /\ vh.recState \in {"running", "stopping"}
    /\ vh'.recState \notin {"running", "stopping"}

\* C22: with no result event, only no-speech and aborted errors and end
\* events, the status is "listening" from the recognizer's first start until
\* stop(), every end event restarts the recognizer while isListening holds
\* and the recognizer exists, and no silence timer is armed, no transcript
\* handed over and no turn begun.
C22_QuietStaysListening ==
    /\ [](/\ ~vh.stopped => vh.status \in {"none", "listening"}
          /\ (~vh.stopped /\ vh.recState = "running") => vh.status = "listening"
          /\ vh.timers = {}
          /\ vh.restartTimers = 0
          /\ vh.handed = <<>>
          /\ \A t \in Turns : vh.turn[t] = "none")
    /\ [][/\ (vh.status = "listening" /\ ~vh'.stopped) => vh'.status = "listening"
          /\ EndStep => vh'.recState = IF vh.isListening /\ vh.recognition
                                       THEN "starting"
                                       ELSE "idle"]_vars

\* C22's case: the recognizer had started, an end event came in voice mode
\* and the recognizer is being started again.
C22_Witness ==
    /\ ~vh.stopped
    /\ vh.isListening
    /\ vh.status = "listening"
    /\ vh.recState = "starting"

\* ------------------------------------------------------------------- intent

\* The step in which navigate is called.
NavigateStep == nav'.navigates = nav.navigates + 1

\* C23: a navigate call whose intent has a confidence below 0.5 returns a
\* failure whose suggestion names the categories the page context holds, it
\* starts no action and adds nothing to the history.
C23_LowConfidenceFallback ==
    [][(NavigateStep /\ nav'.response.kind = "lowConfidence")
        => /\ ~nav'.response.success
           /\ nav'.response.names = nav.pageContext
           /\ nav'.run = nav.run
           /\ nav'.currentAction = nav.currentAction
           /\ nav'.history = nav.history]_nav

\* --------------------------------------------------------------------- init

\* C24: however many times init is called, before or after the document is
\* ready, there is never more than one root, one set of UI listeners, one
\* trigger subscription and one set of timers, and there is exactly one of
\* each once init has been called and the document is ready.
C24_InitIdempotent ==
    LET installed == <<page.roots, page.uiListeners, page.subscriptions,
                       page.engagement.intervals, page.tracker.intervals,
                       page.tracker.subscribers>>
    IN  /\ \A i \in 1..Len(installed) : installed[i] <= 1
        /\ (page.inits > 0 /\ page.readyState # "loading")
              => \A i \in 1..Len(installed) : installed[i] = 1
        /\ Cardinality(page.domListeners) <= 1

\* C24's case: init was called while the document was loading and again
\* after it was ready.
C24_Witness ==
    /\ page.inits = MaxInits
    /\ page.domListeners # {}
    /\ page.readyState = "complete"
    /\ page.roots = 1

\* C25: a call of BehaviorTracker.init on an initialized tracker changes
\* nothing but the count of calls: one interval, one set of listeners and one
\* observer stay installed, and each firing of the interval sets timeOnPage
\* to the whole seconds since the session started.
C25_TrackerInitIdempotent ==
    /\ [](LET once  == trackerInit(page.tracker)
              twice == trackerInit(once)
          IN  /\ [twice EXCEPT !.inits = once.inits] = once
              /\ page.tracker.inits > 0
                    => /\ page.tracker.intervals = 1
                       /\ page.tracker.listeners = 1
                       /\ page.tracker.observers = 1)
    /\ [][page'.tracker.timeOnPage # page.tracker.timeOnPage
            => page'.tracker.timeOnPage = page.now - page.tracker.sessionStartTime]_page

\* C25's case: init was called twice and the interval has counted the
\* seconds.
C25_Witness ==
    /\ page.tracker.inits = 2
    /\ page.tracker.timeOnPage = MaxSeconds

\* C26: the confidence of a parsed intent is between 0 and 1 (in tenths),
\* with or without the page context; isNavigationRequest is true exactly
\* when the confidence of the intent it parses is at least 0.5 and the intent
\* is not unknown, so a navigation request never has an unknown intent.  The
\* parser is a pure function: it is taken over every utterance before the
\* first message, and then over each message the widget routes.
C26_NavigationRequest ==
    /\ (nav.navigates = 0) =>
          \A u \in Utterances(MaxNames) :
              LET intent == parseNavigationIntent(u, FALSE)
              IN  /\ intent.confidence \in 0..10
                  /\ parseNavigationIntent(u, TRUE).confidence \in 0..10
                  /\ isNavigationRequest(u) => intent.intent # "unknown"
                  /\ isNavigationRequest(u)
                        <=> (intent.confidence >= 5 /\ intent.intent # "unknown")
    /\ nav.routed.confidence \in 0..10
    /\ nav.routed.isNavRequest
          <=> (nav.routed.confidence >= 5 /\ nav.routed.intent \notin {"unknown", "none"})

\* C26's case: the widget routed a message whose confidence is above 0.5 but
\* whose intent is unknown to the assistant, not to the agent.
C26_Witness ==
    /\ nav.routed.intent = "unknown"
    /\ nav.routed.confidence >= 5
    /\ ~nav.routed.isNavRequest
    /\ nav.navigates > 0

\* A call of ClosingStatements.getBestClose that changes what is recommended.
CloseStep == sales'.statement # sales.statement

\* C27: the plan recommended in a closing statement is the last plan for an
\* enterprise, the first plan for a startup or a low budget, and otherwise
\* the plan marked popular, or the middle plan when none is marked.
C27_RecommendedPlan ==
    [][CloseStep /\ sales.pricing # <<>> =>
        LET plans == sales.pricing
            userProfile == sales.userProfile
            recommended ==
                IF userProfile.companySize = "enterprise" THEN Len(plans)
                ELSE IF userProfile.companySize = "startup" \/ userProfile.budget = "low"
                     THEN 1
                ELSE IF \E i \in 1..Len(plans) : plans[i]
                     THEN CHOOSE i \in 1..Len(plans) :
                              plans[i] /\ \A j \in 1..(i - 1) : ~plans[j]
                ELSE (Len(plans) \div 2) + 1
        IN  sales'.statement.plan = recommended]_vars

\* A call of speak(text).
SpeakStep == murf'.speaks = murf.speaks + 1

\* C28: speak never sends on a socket that is not OPEN: a call made while
\* the socket is absent, closed or connecting puts nothing on the wire,
\* throws at no send, and waits for the open event.
C28_SpeakWaitsForOpen ==
    [][SpeakStep /\ murf.socket # "open" =>
          /\ murf'.wire = murf.wire
          /\ murf'.promise[murf'.speaks] = "awaitConnect"]_vars

\* An audio chunk with samples is scheduled.
ScheduleStep == playback'.chunks = playback.chunks + 1 /\ playback'.last.samples > 0

\* C29 as stated: every chunk is started at max(nextPlayTime, now + 50 ms),
\* so at least 50 ms after the current audio-clock time and no earlier than
\* the end of the chunk scheduled before it, and nextPlayTime advances by
\* the buffer's duration.
C29_StartsAtMax ==
    [][ScheduleStep =>
          LET late == playback.now + JitterBuffer
              startAt == playback'.last.start
          IN  /\ startAt = IF playback.nextPlayTime > late
                         THEN playback.nextPlayTime ELSE late
              /\ startAt >= late
              /\ startAt >= playback.nextPlayTime
              /\ playback'.nextPlayTime = startAt + playback'.last.samples]_vars

\* C29: a chunk is started at nextPlayTime when that is not in the past, and
\* at now + 50 ms when it is; so it never starts in the past nor earlier than
\* the end of the chunk scheduled before it, it starts exactly at that end
\* while audio is still queued, and nextPlayTime advances by the buffer's
\* duration.
C29_GaplessScheduling ==
    [][ScheduleStep =>
          LET startAt == playback'.last.start
          IN  /\ startAt = IF playback.nextPlayTime < playback.now
                         THEN playback.now + JitterBuffer
                         ELSE playback.nextPlayTime
              /\ startAt >= playback.now
              /\ startAt >= playback.nextPlayTime
              /\ playback'.nextPlayTime = startAt + playback'.last.samples]_vars

\* C29's case: a chunk that follows another of its stream was started at the
\* end of that one, less than 50 ms after the clock time of its arrival.
C29_Witness ==
    /\ playback.last.samples > 0
    /\ ~playback.last.first
    /\ playback.last.at > 0
    /\ playback.last.start = playback.last.nextPlayTime
    /\ playback.last.start < playback.last.at + JitterBuffer

\* An audio chunk is decoded.
DecodeStep == playback'.chunks = playback.chunks + 1

\* C30: within one stream the header is stripped once: the first chunk that
\* carries a header and is longer than 44 bytes has 44 bytes stripped, and
\* every chunk decoded after it, until the next flush, has none stripped.
C30_HeaderStrippedOnce ==
    [][DecodeStep =>
          /\ (playback.wavHeaderSet /\ playback'.last.samples > 0)
                => playback'.last.stripped = 0
          /\ (playback.inStream = 0 /\ playback'.wavHeaderSet
                 /\ playback'.last.samples > 0)
                => playback'.last.stripped = WavHeader]_vars

\* C31: what planActions yields for each intent: navigate, a single navigate
\* action; compare with two entities or more, compare last, after a navigate
\* exactly when the target is known; highlight, a focus on the first entity,
\* else on the target, after a navigate exactly when the target is known;
\* read, the same with a read; click, a single click; an unknown intent with
\* a known target, a single navigate.
C31_PlanPerIntent ==
    LET p       == nav.planned
        known   == p.target # "unknown"
        after(type) == IF known THEN <<"navigate", type>> ELSE <<type>>
        aimed   == IF p.entities > 0 THEN "entity" ELSE p.target
    IN  /\ p.intent = "navigate" => p.actions = <<"navigate">>
        /\ (p.intent = "compare" /\ p.entities >= 2) => p.actions = after("compare")
        /\ p.intent = "highlight" => p.actions = after("focus") /\ p.on = aimed
        /\ p.intent = "read" => p.actions = after("read") /\ p.on = aimed
        /\ p.intent = "click" => p.actions = <<"click">>
        /\ (p.intent = "unknown" /\ known) => p.actions = <<"navigate">>

\* C31's case: navigate planned a comparison of two entities with no known
\* target: the plan is the compare action alone.
C31_Witness ==
    /\ nav.planned.intent = "compare"
    /\ nav.planned.entities >= 2
    /\ nav.planned.target = "unknown"
    /\ nav.planned.actions = <<"compare">>
    /\ nav.calls > 0

\* C32: an utterance with no intent keyword in which a target matched is
\* parsed as navigate, so no intent that navigate parsed is unknown with a
\* known target.
C32_KnownTargetHasIntent ==
    nav.planned.target # "unknown" => nav.planned.intent \notin {"unknown", "none"}

\* C33: a speak promise is resolved only once the final-audio frame of its
\* own utterance has arrived: no frame and no ended event of an earlier
\* utterance resolves it while the server is still streaming its context.
C33_ResolvedByOwnFinal ==
    [][\A p \in Speaks :
          (murf.promise[p] = "pending" /\ murf'.promise[p] = "resolved")
              => (Accepted(murf, p) /\ p \notin server'.streaming)]_vars

\* C34: once stop() has run the session stays idle: no later event emits a
\* status other than idle, starts the recognizer or starts a TTS utterance.
C34_StoppedStaysIdle ==
    [][vh.stopped
        => /\ vh'.status = "idle"
           /\ vh'.recState = "starting" => vh.recState = "starting"
           /\ murf'.speaks = murf.speaks]_vars

\* C35: after disconnect() no socket is opened unless connect() or speak()
\* is called: the close event of the socket that disconnect() closed arms no
\* reconnect timer, and no timer opens a socket where disconnect() left none.
C35_NoReconnectAfterDisconnect ==
    [][/\ Len(murf'.orphans) < Len(murf.orphans)
            => murf'.reconnectTimers = murf.reconnectTimers
       /\ (murf.socket = "null" /\ murf'.socket = "connecting")
            => murf'.reconnectTimers = murf.reconnectTimers]_vars

\* C36: after interrupt() or flushBuffer() during an utterance nothing of it
\* is played: until the next speak call no audio chunk that arrives is
\* scheduled and the set of active sources stays empty.
C36_FlushedStaysSilent ==
    /\ [](playback.utterance = "flushed" => playback.activeSources = {})
    /\ [][(playback.utterance = "flushed" /\ playback'.utterance = "flushed")
            => playback'.nextPlayTime = playback.nextPlayTime]_vars

\* C37: at most one voice turn is in flight: while a processSpeech call
\* awaits the reply or the playback, no other processSpeech call has begun.
C37_OneTurnInFlight ==
    Cardinality({t \in Turns : vh.turn[t] \notin {"none", "done"}}) <= 1

\* C38: whenever the store's isVoiceMode is false and no voice start is in
\* progress, no voice session is live: the recognizer is not running and the
\* TTS socket is neither open nor connecting.
C38_NoSessionOutsideVoiceMode ==
    (~ui.isVoiceMode /\ ~ui.starting) =>
        /\ vh.recState \notin {"starting", "running"}
        /\ murf.socket \notin {"open", "connecting"}

\* C39: a failed sendMessage call leaves no user entry of its turn in the
\* conversation history, so every user entry, except the one of a call still
\* in flight, is followed by the assistant reply of its call.
C39_FailedTurnNotRetained ==
    LET h == api.conversationHistory
    IN  /\ \A c \in Calls :
            api.pc[c] = "failed" => \A i \in 1..Len(h) : h[i] # Entry("user", c)
        /\ \A i \in 1..Len(h) :
            (h[i].role = "user" /\ h[i].call \notin InFlight)
                => /\ i < Len(h)
                   /\ h[i + 1] = Entry("assistant", h[i].call)

\* The state part of C40: the last entry of stageHistory is currentStage and
\* no two consecutive entries are equal.
HistoryTracksStage ==
    LET h == flow.stageHistory
    IN  /\ Len(h) >= 1
        /\ h[Len(h)] = flow.currentStage
        /\ \A i \in 1..(Len(h) - 1) : h[i] # h[i + 1]

\* C40, as stated: after any sequence of advanceStage and reset calls the
\* last entry of stageHistory is currentStage, no two consecutive entries are
\* equal, and every call grows stageHistory by one entry if it changes the
\* stage and by none otherwise.
C40_GrowsOnEveryChange ==
    /\ [](HistoryTracksStage)
    /\ [][Len(flow.stageHistory') = Len(flow.stageHistory) +
              (IF flow.currentStage' # flow.currentStage THEN 1 ELSE 0)]_flow

\* C40, amended: the same for the calls of advanceStage, which appends the
\* new stage when the stage changes and leaves the history alone otherwise;
\* a call of reset replaces the history by the single entry greeting.
C40_HistoryFollowsStage ==
    /\ [](HistoryTracksStage)
    /\ [][IF flow.resets' # flow.resets
          THEN /\ flow.currentStage' = "greeting"
               /\ flow.stageHistory' = <<"greeting">>
          ELSE flow.stageHistory' =
                   (IF flow.currentStage' # flow.currentStage
                    THEN Append(flow.stageHistory, flow.currentStage')
                    ELSE flow.stageHistory)]_flow

\* C40's case: the manager was reset in the course of a conversation, and a
\* later call of advanceStage changed the stage.
C40_Witness ==
    /\ flow.resets > 0
    /\ flow.userMessages = MaxUtterances
    /\ Len(flow.stageHistory) >= 2

====
